---- MODULE Spec2Model ----
(***************************************************************************)
(* Model of the economic-event classifier of the trading dashboard         *)
(* (src/Dailyschedule.py): parse_time, parse_impact and the per-event loop *)
(* of analyze_day_events.                                                  *)
(*                                                                         *)
(* Python values are modelled as follows.  A str is a TLA+ string.  A      *)
(* value that may be None is boxed: None is <<>> and the str s is <<s>>.   *)
(* A datetime.time is <<hour, minute>> and a missing time is None.  A dict *)
(* is a function whose DOMAIN is the set of keys that are present.         *)
(***************************************************************************)
EXTENDS Integers, Sequences, FiniteSets

VARIABLES
    events,                     \* the `events` argument of analyze_day_events
    idx,                        \* number of loop iterations completed
    plan,                       \* local `plan`
    reason,                     \* local `reason`
    has_high_impact_usd_event,  \* local flag
    morning_events,             \* local bucket
    afternoon_events,           \* local bucket
    all_day_events,             \* local bucket
    pc,                         \* "loop", "returned" or "raised"
    ret,                        \* the returned tuple, <<>> before the return
    exc,                        \* the exception that propagated, "" if none
    target_date,                \* the `target_date` argument of analyze_day_events
    history,                    \* the calls completed so far: <<target_date, events, outcome>>
    fn,                         \* the parser under application, "" if none
    arg,                        \* its argument
    out,                        \* its result, once it has returned
    main_pc,                    \* position in ffscraper.main
    week_mode,                  \* args.week
    output,                     \* args.output
    driver,                     \* local `driver` of main
    attempt,                    \* loop variable of the retry loop
    main_events,                \* local `events` of main: None or <<len(events)>>
    raised,                     \* the exception in flight in main, "" if none
    log,                        \* the calls main has made, with their outcomes
    csv_written,                \* whether save_to_csv has written the file
    exit_status,                \* exit status of the process, -1 while it runs
    scr_pc,                     \* position in scrape_calendar_data
    now,                        \* the date of the last datetime.now() of the scrape
    reads,                      \* for each row gone through, the dates datetime.now() gave at its date cells
    has_table,                  \* whether the page has an element of class calendar__table
    table,                      \* the rows of the calendar table, as the driver gives them
    row_i,                      \* number of rows the loop has been through
    week_filter,                \* the `week_filter` argument
    week_start,                 \* local `week_start`, <<>> when not assigned
    week_end,                   \* local `week_end`, <<>> when not assigned
    data,                       \* local `data`
    current_date,               \* local `current_date`
    last_time                   \* local `last_time`

analyzerVars == <<events, idx, plan, reason, has_high_impact_usd_event,
                  morning_events, afternoon_events, all_day_events, pc, ret, exc>>
callVars == <<target_date, history>>
parserVars == <<fn, arg, out>>

mainVars == <<main_pc, week_mode, output, driver, attempt, main_events, raised,
              log, csv_written, exit_status>>

scrapeVars == <<scr_pc, now, reads, has_table, table, row_i, week_filter,
               week_start, week_end, data, current_date, last_time>>

vars == <<analyzerVars, callVars, parserVars, mainVars, scrapeVars>>

(***************************************************************************)
(* Python values                                                           *)
(***************************************************************************)
None == <<>>
Str(s) == <<s>>
IsNone(v) == v = None
StrOf(v) == v[1]

\* dict.get(key, default)
Get(d, key, default) == IF key \in DOMAIN d THEN d[key] ELSE default

(***************************************************************************)
(* str methods                                                             *)
(***************************************************************************)
\* the characters str.isspace() is true of: U+0009..U+000D, U+001C..U+001F,
\* U+0020, U+0085, U+00A0 and U+1680.  They are the characters str.strip()
\* and str.split() take off, and the ones \s of a regular expression matches.
Whitespace == {"\t", "\n", "", "\f", "\r", "", "", "", "", " ",
               "", " ", " "}

CharAt(s, i) == SubSeq(s, i, i)

\* the one-character strings of s
CharsOf(s) == {CharAt(s, i) : i \in 1..Len(s)}

\* the characters of from paired with those of to, position by position
PairsOf(from, to) == {<<CharAt(from, i), CharAt(to, i)>> : i \in 1..Len(from)}

(***************************************************************************)
(* The case mappings of str.lower() and str.upper() (Unicode 14, the       *)
(* database of Python 3.11), over the characters a string of a module can  *)
(* hold.  LowerFrom and LowerTo, and UpperFrom and UpperTo, correspond     *)
(* position by position.                                                   *)
(***************************************************************************)
\* the characters with a lower case other than themselves
LowerFrom ==
       "ABCDEFGHIJKLMNOPQRSTUVWXYZÀÁÂÃÄÅÆÇÈÉÊËÌÍÎÏÐÑÒÓÔÕÖØÙÚÛÜÝÞƂƄƇƋ"
    \o "ƎƑƘƠƢƤƦƧƩƬƮƯƱƲƳƵƷƸƼǄǅǇǈǊǋǍǏǑǓǕǗǙǛǞǠǢǤǦǨǪǬǮǱǲǴǶǷǸǺǼǾΆΈΉΊΌΎΏΑΒ"
    \o "ΓΔΕΖΗΘΙΚΛΜΝΞΟΠΡΣΤΥΦΧΨΩΪΫϏϘϚϜϞϠϢϤϦϨϪϬϮϴϷϹϺҀҊҌҎҐҒҔҖҘҚҜҞҠҢҤҦҨҪҬ"
    \o "ҮҰҲҴҶҸҺҼҾӀӁӃӅӇӉӋӍӐӒӔӖӘӚӜӞӠӢӤӦӨӪӬӮӰӲӴӶӸӺӼӾᎰᎱᎲᎳᎴᎵᎶᎷᎸᎹᎺᎻᎼᎽᎾᎿᏀᏁᏂ"
    \o "ᏃᏄᏅᏆᏇᏈᏉᏊᏋᏌᏍᏎᏏᏐᏑᏒᏓᏔᏕᏖᏗᏘᏙᏚᏛᏜᏝᏞᏟᏠᏡᏢᏣᏤᏥᏦᏧᏨᏩᏪᏫᏬᏭᏮᏯᏰᏱᏲᏳᏴᏵᲐᲑᲒᲓᲔᲕᲖᲗᲘ"
    \o "ᲙᲚᲛᲜᲝᲞᲟᲠᲡᲢᲣᲤᲥᲦᲧᲨᲩᲪᲫᲬᲭᲮᲯᲰᲱᲲᲳᲴᲵᲶᲷᲸᲹᲺᲽᲾᲿẀẂẄẆẈẊẌẎẐẒẔẞẠẢẤẦẨẪẬẮẰẲẴ"
    \o "ẶẸẺẼẾỀỂỄỆỈỊỌỎỐỒỔỖỘỚỜỞỠỢỤỦỨỪỬỮỰỲỴỶỸỺỼỾᾈᾉᾊᾋᾌᾍᾎᾏᾘᾙᾚᾛᾜᾝᾞᾟᾨᾩᾪᾫᾬᾭᾮ"
    \o "ᾯᾸᾹᾼῌῘῙῨῩῬῼↃⒶⒷⒸⒹⒺⒻⒼⒽⒾⒿⓀⓁⓂⓃⓄⓅⓆⓇⓈⓉⓊⓋⓌⓍⓎⓏⲀⲂⲄⲆⲈⲊⲌⲎⲐⲒⲔⲖⲘⲚⲜⲞⲠⲢⲤⲦⲨⲪ"
    \o "ⲬⲮⲰⲲⲴⲶⲸⲺⲼⲾⳀⳂⳄⳆⳈⳊⳌⳎⳐⳒⳔⳖⳘⳚⳜⳞⳠⳢⳫⳭⳲꚀꚂꚄꚆꚈꚊꚌꚎꚐꚒꚔꚖꚘꚚꞀꞂꞄꞆꞋꞐꞒꞖꞘꞚꞜꞞꞠꞢꞤ"
    \o "ꞦꞨꞰꞱꞲꞴꞶꞸꞺꞼꞾꟀꟂꟄꟅꟆꟇꟉꟐꟖꟘꟵ"
LowerTo ==
       "abcdefghijklmnopqrstuvwxyzàáâãäåæçèéêëìíîïðñòóôõöøùúûüýþƃƅƈƌ"
    \o "ǝƒƙơƣƥʀƨʃƭʈưʊʋƴƶʒƹƽǆǆǉǉǌǌǎǐǒǔǖǘǚǜǟǡǣǥǧǩǫǭǯǳǳǵƕƿǹǻǽǿάέήίόύώαβ"
    \o "γδεζηθικλμνξοπρστυφχψωϊϋϗϙϛϝϟϡϣϥϧϩϫϭϯθϸϲϻҁҋҍҏґғҕҗҙқҝҟҡңҥҧҩҫҭ"
    \o "үұҳҵҷҹһҽҿӏӂӄӆӈӊӌӎӑӓӕӗәӛӝӟӡӣӥӧөӫӭӯӱӳӵӷӹӻӽӿꮀꮁꮂꮃꮄꮅꮆꮇꮈꮉꮊꮋꮌꮍꮎꮏꮐꮑꮒ"
    \o "ꮓꮔꮕꮖꮗꮘꮙꮚꮛꮜꮝꮞꮟꮠꮡꮢꮣꮤꮥꮦꮧꮨꮩꮪꮫꮬꮭꮮꮯꮰꮱꮲꮳꮴꮵꮶꮷꮸꮹꮺꮻꮼꮽꮾꮿᏸᏹᏺᏻᏼᏽაბგდევზთი"
    \o "კლმნოპჟრსტუფქღყშჩცძწჭხჯჰჱჲჳჴჵჶჷჸჹჺჽჾჿẁẃẅẇẉẋẍẏẑẓẕßạảấầẩẫậắằẳẵ"
    \o "ặẹẻẽếềểễệỉịọỏốồổỗộớờởỡợụủứừửữựỳỵỷỹỻỽỿᾀᾁᾂᾃᾄᾅᾆᾇᾐᾑᾒᾓᾔᾕᾖᾗᾠᾡᾢᾣᾤᾥᾦ"
    \o "ᾧᾰᾱᾳῃῐῑῠῡῥῳↄⓐⓑⓒⓓⓔⓕⓖⓗⓘⓙⓚⓛⓜⓝⓞⓟⓠⓡⓢⓣⓤⓥⓦⓧⓨⓩⲁⲃⲅⲇⲉⲋⲍⲏⲑⲓⲕⲗⲙⲛⲝⲟⲡⲣⲥⲧⲩⲫ"
    \o "ⲭⲯⲱⲳⲵⲷⲹⲻⲽⲿⳁⳃⳅⳇⳉⳋⳍⳏⳑⳓⳕⳗⳙⳛⳝⳟⳡⳣⳬⳮⳳꚁꚃꚅꚇꚉꚋꚍꚏꚑꚓꚕꚗꚙꚛꞁꞃꞅꞇꞌꞑꞓꞗꞙꞛꞝꞟꞡꞣꞥ"
    \o "ꞧꞩʞʇʝꞵꞷꞹꞻꞽꞿꟁꟃꞔʂᶎꟈꟊꟑꟗꟙꟶ"

\* the characters with an upper case of one character other than themselves
UpperFrom ==
       "abcdefghijklmnopqrstuvwxyzµàáâãäåæçèéêëìíîïðñòóôõöøùúûüýþƃƅƈ"
    \o "ƌƒƕƙơƣƥƨƭưƴƶƹƽƿǅǆǈǉǋǌǎǐǒǔǖǘǚǜǝǟǡǣǥǧǩǫǭǯǲǳǵǹǻǽǿʀʂʃʇʈʊʋʒʝʞάέήί"
    \o "αβγδεζηθικλμνξοπρςστυφχψωϊϋόύώϐϑϕϖϗϙϛϝϟϡϣϥϧϩϫϭϯϰϱϲϵϸϻҁҋҍҏґғҕ"
    \o "җҙқҝҟҡңҥҧҩҫҭүұҳҵҷҹһҽҿӂӄӆӈӊӌӎӏӑӓӕӗәӛӝӟӡӣӥӧөӫӭӯӱӳӵӷӹӻӽӿაბგდევზ"
    \o "თიკლმნოპჟრსტუფქღყშჩცძწჭხჯჰჱჲჳჴჵჶჷჸჹჺჽჾჿᏸᏹᏺᏻᏼᏽᶎẁẃẅẇẉẋẍẏẑẓẕạảấ"
    \o "ầẩẫậắằẳẵặẹẻẽếềểễệỉịọỏốồổỗộớờởỡợụủứừửữựỳỵỷỹỻỽỿᾰᾱιῐῑῠῡῥↄⓐⓑⓒⓓⓔⓕ"
    \o "ⓖⓗⓘⓙⓚⓛⓜⓝⓞⓟⓠⓡⓢⓣⓤⓥⓦⓧⓨⓩⲁⲃⲅⲇⲉⲋⲍⲏⲑⲓⲕⲗⲙⲛⲝⲟⲡⲣⲥⲧⲩⲫⲭⲯⲱⲳⲵⲷⲹⲻⲽⲿⳁⳃⳅⳇⳉⳋⳍⳏ"
    \o "ⳑⳓⳕⳗⳙⳛⳝⳟⳡⳣⳬⳮⳳꚁꚃꚅꚇꚉꚋꚍꚏꚑꚓꚕꚗꚙꚛꞁꞃꞅꞇꞌꞑꞓꞔꞗꞙꞛꞝꞟꞡꞣꞥꞧꞩꞵꞷꞹꞻꞽꞿꟁꟃꟈꟊꟑꟗꟙꟶꮀ"
    \o "ꮁꮂꮃꮄꮅꮆꮇꮈꮉꮊꮋꮌꮍꮎꮏꮐꮑꮒꮓꮔꮕꮖꮗꮘꮙꮚꮛꮜꮝꮞꮟꮠꮡꮢꮣꮤꮥꮦꮧꮨꮩꮪꮫꮬꮭꮮꮯꮰꮱꮲꮳꮴꮵꮶꮷꮸꮹꮺꮻꮼ"
    \o "ꮽꮾꮿ"
UpperTo ==
       "ABCDEFGHIJKLMNOPQRSTUVWXYZΜÀÁÂÃÄÅÆÇÈÉÊËÌÍÎÏÐÑÒÓÔÕÖØÙÚÛÜÝÞƂƄƇ"
    \o "ƋƑǶƘƠƢƤƧƬƯƳƵƸƼǷǄǄǇǇǊǊǍǏǑǓǕǗǙǛƎǞǠǢǤǦǨǪǬǮǱǱǴǸǺǼǾƦꟅƩꞱƮƱƲƷꞲꞰΆΈΉΊ"
    \o "ΑΒΓΔΕΖΗΘΙΚΛΜΝΞΟΠΡΣΣΤΥΦΧΨΩΪΫΌΎΏΒΘΦΠϏϘϚϜϞϠϢϤϦϨϪϬϮΚΡϹΕϷϺҀҊҌҎҐҒҔ"
    \o "ҖҘҚҜҞҠҢҤҦҨҪҬҮҰҲҴҶҸҺҼҾӁӃӅӇӉӋӍӀӐӒӔӖӘӚӜӞӠӢӤӦӨӪӬӮӰӲӴӶӸӺӼӾᲐᲑᲒᲓᲔᲕᲖ"
    \o "ᲗᲘᲙᲚᲛᲜᲝᲞᲟᲠᲡᲢᲣᲤᲥᲦᲧᲨᲩᲪᲫᲬᲭᲮᲯᲰᲱᲲᲳᲴᲵᲶᲷᲸᲹᲺᲽᲾᲿᏰᏱᏲᏳᏴᏵꟆẀẂẄẆẈẊẌẎẐẒẔẠẢẤ"
    \o "ẦẨẪẬẮẰẲẴẶẸẺẼẾỀỂỄỆỈỊỌỎỐỒỔỖỘỚỜỞỠỢỤỦỨỪỬỮỰỲỴỶỸỺỼỾᾸᾹΙῘῙῨῩῬↃⒶⒷⒸⒹⒺⒻ"
    \o "ⒼⒽⒾⒿⓀⓁⓂⓃⓄⓅⓆⓇⓈⓉⓊⓋⓌⓍⓎⓏⲀⲂⲄⲆⲈⲊⲌⲎⲐⲒⲔⲖⲘⲚⲜⲞⲠⲢⲤⲦⲨⲪⲬⲮⲰⲲⲴⲶⲸⲺⲼⲾⳀⳂⳄⳆⳈⳊⳌⳎ"
    \o "ⳐⳒⳔⳖⳘⳚⳜⳞⳠⳢⳫⳭⳲꚀꚂꚄꚆꚈꚊꚌꚎꚐꚒꚔꚖꚘꚚꞀꞂꞄꞆꞋꞐꞒꟄꞖꞘꞚꞜꞞꞠꞢꞤꞦꞨꞴꞶꞸꞺꞼꞾꟀꟂꟇꟉꟐꟖꟘꟵᎰ"
    \o "ᎱᎲᎳᎴᎵᎶᎷᎸᎹᎺᎻᎼᎽᎾᎿᏀᏁᏂᏃᏄᏅᏆᏇᏈᏉᏊᏋᏌᏍᏎᏏᏐᏑᏒᏓᏔᏕᏖᏗᏘᏙᏚᏛᏜᏝᏞᏟᏠᏡᏢᏣᏤᏥᏦᏧᏨᏩᏪᏫᏬ"
    \o "ᏭᏮᏯ"

\* the characters with an upper case of several characters
UpperExpansions ==
    {<<"ß", "SS">>, <<"ẚ", "Aʾ">>, <<"ᾲ", "ᾺΙ">>, <<"ᾳ", "ΑΙ">>,
     <<"ᾴ", "ΆΙ">>, <<"ᾼ", "ΑΙ">>, <<"ῂ", "ῊΙ">>, <<"ῃ", "ΗΙ">>,
     <<"ῄ", "ΉΙ">>, <<"ῌ", "ΗΙ">>, <<"ῲ", "ῺΙ">>, <<"ῳ", "ΩΙ">>,
     <<"ῴ", "ΏΙ">>, <<"ῼ", "ΩΙ">>}

\* the characters whose lower case, and those whose upper case, is or holds a
\* character that no string of a module can hold: U+00FF, whose upper case
\* is U+0178, is one
LowerBeyond ==
       "ƁƆƉƊƏƐƓƔƖƗƜƝƟϽϾϿႠႡႢႣႤႥႦႧႨႩႪႫႬႭႮႯႰႱႲႳႴႵႶႷႸႹႺႻႼႽႾႿჀჁჂჃჄჅჇჍᎠᎡᎢᎣ"
    \o "ᎤᎥᎦᎧᎨᎩᎪᎫᎬᎭᎮᎯᾺΆῈΈῊΉῚΊῪΎῸΌῺΏꞍꞪꞫꞬꞭꞮꞳ"
UpperBeyond ==
       "ÿƀƚƞǰʉʌΐΰϳրցւփքօֆևᲀᲁᲂᲃᲄᲅᲆᲇᲈẖẗẘẙẛᾀᾁᾂᾃᾄᾅᾆᾇᾈᾉᾊᾋᾌᾍᾎᾏᾐᾑᾒᾓᾔᾕᾖᾗᾘᾙᾚᾛ"
    \o "ᾜᾝᾞᾟᾠᾡᾢᾣᾤᾥᾦᾧᾨᾩᾪᾫᾬᾭᾮᾯᾶᾷῆῇῒΐῖῗῢΰῤῦῧῶῷ"

\* the cased characters that are not case-ignorable, and the case-ignorable
\* characters (section 3.13 of the Unicode standard)
CasedChars ==
       "ABCDEFGHIJKLMNOPQRSTUVWXYZabcdefghijklmnopqrstuvwxyzªµºÀÁÂÃÄ"
    \o "ÅÆÇÈÉÊËÌÍÎÏÐÑÒÓÔÕÖØÙÚÛÜÝÞßàáâãäåæçèéêëìíîïðñòóôõöøùúûüýþÿƀƁƂ"
    \o "ƃƄƅƆƇƈƉƊƋƌƍƎƏƐƑƒƓƔƕƖƗƘƙƚƛƜƝƞƟƠơƢƣƤƥƦƧƨƩƪƫƬƭƮƯưƱƲƳƴƵƶƷƸƹƺƼƽƾƿ"
    \o "ǄǅǆǇǈǉǊǋǌǍǎǏǐǑǒǓǔǕǖǗǘǙǚǛǜǝǞǟǠǡǢǣǤǥǦǧǨǩǪǫǬǭǮǯǰǱǲǳǴǵǶǷǸǹǺǻǼǽǾǿ"
    \o "ʀʁʂʃʄʅʆʇʈʉʊʋʌʍʎʏʐʑʒʓʕʖʗʘʙʚʛʜʝʞʟʠʡʢʣʤʥʦʧʨʩʪʫʬʭʮʯΆΈΉΊΌΎΏΐΑΒΓΔΕ"
    \o "ΖΗΘΙΚΛΜΝΞΟΠΡΣΤΥΦΧΨΩΪΫάέήίΰαβγδεζηθικλμνξοπρςστυφχψωϊϋόύώϏϐϑϒ"
    \o "ϓϔϕϖϗϘϙϚϛϜϝϞϟϠϡϢϣϤϥϦϧϨϩϪϫϬϭϮϯϰϱϲϳϴϵϷϸϹϺϻϼϽϾϿҀҁҊҋҌҍҎҏҐґҒғҔҕҖҗ"
    \o "ҘҙҚқҜҝҞҟҠҡҢңҤҥҦҧҨҩҪҫҬҭҮүҰұҲҳҴҵҶҷҸҹҺһҼҽҾҿӀӁӂӃӄӅӆӇӈӉӊӋӌӍӎӏӐӑӒӓ"
    \o "ӔӕӖӗӘәӚӛӜӝӞӟӠӡӢӣӤӥӦӧӨөӪӫӬӭӮӯӰӱӲӳӴӵӶӷӸӹӺӻӼӽӾӿրցւփքօֆևֈႠႡႢႣႤႥႦ"
    \o "ႧႨႩႪႫႬႭႮႯႰႱႲႳႴႵႶႷႸႹႺႻႼႽႾႿჀჁჂჃჄჅჇჍაბგდევზთიკლმნოპჟრსტუფქღყშჩც"
    \o "ძწჭხჯჰჱჲჳჴჵჶჷჸჹჺჽჾჿᎠᎡᎢᎣᎤᎥᎦᎧᎨᎩᎪᎫᎬᎭᎮᎯᎰᎱᎲᎳᎴᎵᎶᎷᎸᎹᎺᎻᎼᎽᎾᎿᏀᏁᏂᏃᏄᏅᏆᏇᏈ"
    \o "ᏉᏊᏋᏌᏍᏎᏏᏐᏑᏒᏓᏔᏕᏖᏗᏘᏙᏚᏛᏜᏝᏞᏟᏠᏡᏢᏣᏤᏥᏦᏧᏨᏩᏪᏫᏬᏭᏮᏯᏰᏱᏲᏳᏴᏵᏸᏹᏺᏻᏼᏽᲀᲁᲂᲃᲄᲅᲆᲇᲈ"
    \o "ᲐᲑᲒᲓᲔᲕᲖᲗᲘᲙᲚᲛᲜᲝᲞᲟᲠᲡᲢᲣᲤᲥᲦᲧᲨᲩᲪᲫᲬᲭᲮᲯᲰᲱᲲᲳᲴᲵᲶᲷᲸᲹᲺᲽᲾᲿᶀᶁᶂᶃᶄᶅᶆᶇᶈᶉᶊᶋᶌᶍ"
    \o "ᶎᶏᶐᶑᶒᶓᶔᶕᶖᶗᶘᶙᶚẀẁẂẃẄẅẆẇẈẉẊẋẌẍẎẏẐẑẒẓẔẕẖẗẘẙẚẛẜẝẞẟẠạẢảẤấẦầẨẩẪẫẬậẮ"
    \o "ắẰằẲẳẴẵẶặẸẹẺẻẼẽẾếỀềỂểỄễỆệỈỉỊịỌọỎỏỐốỒồỔổỖỗỘộỚớỜờỞởỠỡỢợỤụỦủỨứỪ"
    \o "ừỬửỮữỰựỲỳỴỵỶỷỸỹỺỻỼỽỾỿᾀᾁᾂᾃᾄᾅᾆᾇᾈᾉᾊᾋᾌᾍᾎᾏᾐᾑᾒᾓᾔᾕᾖᾗᾘᾙᾚᾛᾜᾝᾞᾟᾠᾡᾢᾣᾤᾥᾦ"
    \o "ᾧᾨᾩᾪᾫᾬᾭᾮᾯᾰᾱᾲᾳᾴᾶᾷᾸᾹᾺΆᾼιῂῃῄῆῇῈΈῊΉῌῐῑῒΐῖῗῘῙῚΊῠῡῢΰῤῥῦῧῨῩῪΎῬῲῳῴῶῷ"
    \o "ῸΌῺΏῼↃↄⒶⒷⒸⒹⒺⒻⒼⒽⒾⒿⓀⓁⓂⓃⓄⓅⓆⓇⓈⓉⓊⓋⓌⓍⓎⓏⓐⓑⓒⓓⓔⓕⓖⓗⓘⓙⓚⓛⓜⓝⓞⓟⓠⓡⓢⓣⓤⓥⓦⓧⓨⓩⲀ"
    \o "ⲁⲂⲃⲄⲅⲆⲇⲈⲉⲊⲋⲌⲍⲎⲏⲐⲑⲒⲓⲔⲕⲖⲗⲘⲙⲚⲛⲜⲝⲞⲟⲠⲡⲢⲣⲤⲥⲦⲧⲨⲩⲪⲫⲬⲭⲮⲯⲰⲱⲲⲳⲴⲵⲶⲷⲸⲹⲺⲻⲼ"
    \o "ⲽⲾⲿⳀⳁⳂⳃⳄⳅⳆⳇⳈⳉⳊⳋⳌⳍⳎⳏⳐⳑⳒⳓⳔⳕⳖⳗⳘⳙⳚⳛⳜⳝⳞⳟⳠⳡⳢⳣⳤⳫⳬⳭⳮⳲⳳꚀꚁꚂꚃꚄꚅꚆꚇꚈꚉꚊꚋꚌꚍ"
    \o "ꚎꚏꚐꚑꚒꚓꚔꚕꚖꚗꚘꚙꚚꚛꞀꞁꞂꞃꞄꞅꞆꞇꞋꞌꞍꞎꞐꞑꞒꞓꞔꞕꞖꞗꞘꞙꞚꞛꞜꞝꞞꞟꞠꞡꞢꞣꞤꞥꞦꞧꞨꞩꞪꞫꞬꞭꞮꞯꞰꞱ"
    \o "ꞲꞳꞴꞵꞶꞷꞸꞹꞺꞻꞼꞽꞾꞿꟀꟁꟂꟃꟄꟅꟆꟇꟈꟉꟊꟐꟑꟓꟕꟖꟗꟘꟙꟵꟶꟺꮀꮁꮂꮃꮄꮅꮆꮇꮈꮉꮊꮋꮌꮍꮎꮏꮐꮑꮒꮓꮔꮕꮖꮗ"
    \o "ꮘꮙꮚꮛꮜꮝꮞꮟꮠꮡꮢꮣꮤꮥꮦꮧꮨꮩꮪꮫꮬꮭꮮꮯꮰꮱꮲꮳꮴꮵꮶꮷꮸꮹꮺꮻꮼꮽꮾꮿ"
CaseIgnorableChars ==
       "'.:^¨­¯´·¸ʰʱʲʳʴʵʶʷʸʹʺʻʼʽʾʿˀˁ˂˃˄˅ˆˇˈˉˊˋˌˍˎˏːˑ˒˓˔˕˖˗˘˙˚˛˜˝˞˟ˠˡ"
    \o "ˢˣˤ˥˦˧˨˩˪˫ˬ˭ˮ˯˰˱˲˳˴˵˶˷˸˹˺˻˼˽˾˿΄΅·҃҄҅҆҇҈҉֑֖֛֢֣֤֚֒֓֔֕֗֘֙֜֝֞֟֠֡"
    \o "ְֱֲֳִֵֶַָׇֹֺֻּֽֿׁׂ֥֦֧֪ׅ֭֮֨֩֫֬֯ׄ״ۖۗۘۙۚۛۜ۝ۣ۟۠ۡۢۤۥۦ۪ۭۧۨ۫۬ަާިީުޫ"
    \o "ެޭޮޯް߲߫߬߭߮߯߰߱߳ߴߵߺ߽࢈࢐࢑࢙࢚࢛࢘࢜࢝࢞࢟ࣉ࣏࣐࣑࣒࣓࣊࣋࣌࣍࣎ࣔࣕࣖࣗࣘࣙࣚࣛࣜࣝࣞࣟ࣠࣡࣢ࣣࣦࣤࣥࣧ"
    \o "ࣰࣱࣲࣩ࣭࣮࣯ࣶࣹࣺࣨ࣪࣫࣬ࣳࣴࣵࣷࣸࣻࣼࣽࣾࣿঁ়ুূৃৄ্ৢৣ৾ઁં઼ુૂૃૄૅેૈ્ૢૣૺૻૼ૽૾૿ஂீ்ಁ಼ಿೆ"
    \o "ೌ್ೢೣඁ්ිීුූັິີຶື຺ຸູົຼໆ່້໊໋໌ໍ྄ཱྀྀྂྃ྆྇ྍྎྏྐྑྒྒྷྔྕྖྗྙྚྛྜྜྷྞྟྠྡྡྷྣྤྥྦྦྷ"
    \o "ྨྩྪྫྫྷྭྮྯྰྱྲླྴྵྶྷྸྐྵྺྻྼ࿆ႂႅႆႍႝჼ឴឵ិីឹឺុូួំ៉៊់៌៍៎៏័៑្៓ៗ៝ᢅᢆᢩᪧ᪰᪱᪲᪳᪴"
    \o "᪵᪶᪷᪸᪹᪺᪽᪻᪼᪾ᪿᫀ᫃᫄᫊᫁᫂᫅᫆᫇᫈᫉᫋ᫌᫍᫎᮀᮁᮢᮣᮤᮥᮨᮩ᮫ᮬᮭ᯦ᯨᯩᯭᯯᯰᯱ᳔᳕᳖᳗᳘᳙᳜᳝᳞᳟᳐᳑᳒᳚᳛᳠"
    \o "᳢᳣᳤᳥᳦᳧᳨᳭᳴᳸᳹ᶛᶜᶝᶞᶟᶠᶡᶢᶣᶤᶥᶦᶧᶨᶩᶪᶫᶬᶭᶮᶯᶰᶱᶲᶳᶴᶵᶶᶷᶸᶹᶺᶻᶼᶽᶾᶿ᷂᷊᷀᷁᷃᷄᷅᷆᷇᷈᷉᷋"
    \o "᷐᷎᷺᷏᷹᷽᷿᷷᷸᷌᷑᷒ᷓᷔᷕᷖᷗᷘᷙᷚᷛᷜᷝᷞᷟᷠᷡᷢᷣᷤᷥᷦᷧᷨᷩᷪᷫᷬᷭᷮᷯᷰᷱᷲᷳᷴ᷵᷻᷾᷶᷼᷍᾽᾿῀῁῍῎῏῝"
    \o "῞῟῭΅`´῾ₐₑₒₓₔₕₖₗₘₙₚₛₜ⃒⃓⃘⃙⃚⃐⃑⃔⃕⃖⃗⃛⃜⃝⃞⃟⃠⃡⃢⃣⃤⃥⃦⃪⃫⃨⃬⃭⃮⃯⃧⃩⃰⳯⳰⳱ⷠⷡⷢⷣ"
    \o "゙゚ⷤⷥⷦⷧⷨⷩⷪⷫⷬⷭⷮⷯⷰⷱⷲⷳⷴⷵⷶⷷⷸⷹⷺⷻⷼⷽⷾⷿ゛゜ゝゞーヽヾꓸꓹꓺꓻꓼꓽꚜꚝꚞꚟ꛰꛱ꞈ꞉꞊ꟲꟳꟴꟸꟹ꣄ꣅ꣠"
    \o "꣡꣢꣣꣤꣥꣦꣧꣨꣩꣪꣫꣬꣭꣮꣯꣰꣱ꣿꦀꦁꦂ꦳ꦶꦷꦸꦹꦼꦽꧏꧥꧦꪴꪰꪲꪳꪷꪸꪾ꪿꫁ꫝꫬꫭꫳꫴ꫶ꯥꯨ꯭﮲﮳﮴﮵﮶﮷﮸﮹﮺﮻﮼"
    \o "﮽﮾﮿﯀﯁﯂﻿ﾞﾟ￣￹￺￻"

\* the decimal digits (category Nd), in tens from the digit zero to the digit
\* nine, the ASCII digits first: \d of a regular expression matches them and
\* int() reads them
DigitChars ==
       "0123456789"
    \o "۰۱۲۳۴۵۶۷۸۹"
    \o "߀߁߂߃߄߅߆߇߈߉"
    \o "০১২৩৪৫৬৭৮৯"
    \o "૦૧૨૩૪૫૬૭૮૯"
    \o "௦௧௨௩௪௫௬௭௮௯"
    \o "೦೧೨೩೪೫೬೭೮೯"
    \o "෦෧෨෩෪෫෬෭෮෯"
    \o "໐໑໒໓໔໕໖໗໘໙"
    \o "႐႑႒႓႔႕႖႗႘႙"
    \o "០១២៣៤៥៦៧៨៩"
    \o "᧐᧑᧒᧓᧔᧕᧖᧗᧘᧙"
    \o "᪀᪁᪂᪃᪄᪅᪆᪇᪈᪉"
    \o "᪐᪑᪒᪓᪔᪕᪖᪗᪘᪙"
    \o "᮰᮱᮲᮳᮴᮵᮶᮷᮸᮹"
    \o "꣐꣑꣒꣓꣔꣕꣖꣗꣘꣙"
    \o "꧐꧑꧒꧓꧔꧕꧖꧗꧘꧙"
    \o "꧰꧱꧲꧳꧴꧵꧶꧷꧸꧹"
    \o "꯰꯱꯲꯳꯴꯵꯶꯷꯸꯹"

LowerTable ==
    [c \in CharsOf(LowerFrom) |->
        (CHOOSE p \in PairsOf(LowerFrom, LowerTo) : p[1] = c)[2]]
UpperTable ==
    [c \in CharsOf(UpperFrom) \cup {p[1] : p \in UpperExpansions} |->
        (CHOOSE p \in PairsOf(UpperFrom, UpperTo) \cup UpperExpansions : p[1] = c)[2]]

\* the characters lower() changes, and those upper() changes
Lowered == CharsOf(LowerFrom) \cup CharsOf(LowerBeyond)
Uppered == DOMAIN UpperTable \cup CharsOf(UpperBeyond)

Cased == CharsOf(CasedChars)
CaseIgnorable == CharsOf(CaseIgnorableChars)

\* c.lower() and c.upper() for a string c of one character.  On a character
\* of LowerBeyond, or of UpperBeyond, the mapping has no value in the model.
LowerChar(c) == IF c \in Lowered THEN LowerTable[c] ELSE c
UpperChar(c) == IF c \in Uppered THEN UpperTable[c] ELSE c

\* the capital sigma at position i of s is final: a cased character stands
\* before it, case-ignorable characters skipped, and none after it
FinalSigma(s, i) ==
    LET before == {j \in 1..(i - 1) : CharAt(s, j) \notin CaseIgnorable}
        after == {j \in (i + 1)..Len(s) : CharAt(s, j) \notin CaseIgnorable}
    IN  /\ before # {}
        /\ CharAt(s, CHOOSE j \in before : \A k \in before : k <= j) \in Cased
        /\ \/ after = {}
           \/ CharAt(s, CHOOSE j \in after : \A k \in after : j <= k) \notin Cased

\* the lower case of s from position i on: character by character, but for
\* the capital sigma U+03A3, which becomes U+03C2 when final and U+03C3
\* otherwise
RECURSIVE LowerFromPosition(_, _)
LowerFromPosition(s, i) ==
    IF i > Len(s) THEN ""
    ELSE (IF CharAt(s, i) = "Σ"
          THEN (IF FinalSigma(s, i) THEN "ς" ELSE "σ")
          ELSE LowerChar(CharAt(s, i))) \o LowerFromPosition(s, i + 1)

lower(s) == LowerFromPosition(s, 1)

RECURSIVE upper(_)
upper(s) ==
    IF s = "" THEN "" ELSE UpperChar(CharAt(s, 1)) \o upper(SubSeq(s, 2, Len(s)))

\* s matches the lower-case ASCII word under re.IGNORECASE: character by
\* character, each letter of the word or its capital
MatchesIgnoringCase(s, word) ==
    /\ Len(s) = Len(word)
    /\ \A i \in 1..Len(s) :
          CharAt(s, i) \in {CharAt(word, i), UpperChar(CharAt(word, i))}

RECURSIVE lstrip(_)
lstrip(s) ==
    IF s # "" /\ CharAt(s, 1) \in Whitespace THEN lstrip(SubSeq(s, 2, Len(s))) ELSE s

RECURSIVE rstrip(_)
rstrip(s) ==
    IF s # "" /\ CharAt(s, Len(s)) \in Whitespace
    THEN rstrip(SubSeq(s, 1, Len(s) - 1)) ELSE s

strip(s) == rstrip(lstrip(s))

\* Python's `k in s` for two strs
Contains(k, s) ==
    \E i \in 1..(Len(s) - Len(k) + 1) : SubSeq(s, i, i + Len(k) - 1) = k

(***************************************************************************)
(* datetime.strptime(s, fmt).time() for the three formats of parse_time,   *)
(* and time.strftime('%I:%M %p').  strptime matches the whole of s against *)
(* the regular expression of the format, ignoring case:                    *)
(*   %I  1[0-2]|0[1-9]|[1-9]     %H  2[0-3]|[0-1]\d|\d                     *)
(*   %M  [0-5]\d|\d              %p  am|pm          ' '  \s+               *)
(* A class such as [0-5] holds ASCII digits only; \d matches every decimal *)
(* digit of Unicode, and int() reads the text matched.                     *)
(***************************************************************************)
\* the value of each decimal digit
DigitTable ==
    [c \in CharsOf(DigitChars) |->
        ((CHOOSE i \in 1..Len(DigitChars) : CharAt(DigitChars, i) = c) - 1) % 10]

\* \d, and int() of one digit
IsDigit(c) == c \in DOMAIN DigitTable
DigitVal(c) == DigitTable[c]

\* [lo-hi] for two ASCII digits lo and hi
InClass(c, lo, hi) ==
    \E n \in lo..hi : c = CharAt(DigitChars, n + 1)

\* a string of one or two decimal digits
IsNum12(s) ==
    /\ Len(s) \in {1, 2}
    /\ \A i \in 1..Len(s) : IsDigit(CharAt(s, i))

\* int() of a string of one or two decimal digits
NumVal(s) ==
    IF Len(s) = 1 THEN DigitVal(CharAt(s, 1))
    ELSE 10 * DigitVal(CharAt(s, 1)) + DigitVal(CharAt(s, 2))

\* 1[0-2]|0[1-9]|[1-9]
MatchesI(s) ==
    \/ Len(s) = 1 /\ InClass(s, 1, 9)
    \/ /\ Len(s) = 2
       /\ \/ CharAt(s, 1) = "1" /\ InClass(CharAt(s, 2), 0, 2)
          \/ CharAt(s, 1) = "0" /\ InClass(CharAt(s, 2), 1, 9)

\* 2[0-3]|[0-1]\d|\d
MatchesH(s) ==
    \/ Len(s) = 1 /\ IsDigit(s)
    \/ /\ Len(s) = 2
       /\ \/ CharAt(s, 1) = "2" /\ InClass(CharAt(s, 2), 0, 3)
          \/ InClass(CharAt(s, 1), 0, 1) /\ IsDigit(CharAt(s, 2))

\* [0-5]\d|\d
MatchesM(s) ==
    \/ Len(s) = 1 /\ IsDigit(s)
    \/ Len(s) = 2 /\ InClass(CharAt(s, 1), 0, 5) /\ IsDigit(CharAt(s, 2))

\* position of the first ':' of s, 0 if there is none
ColonAt(s) ==
    IF \E i \in 1..Len(s) : CharAt(s, i) = ":"
    THEN CHOOSE i \in 1..Len(s) :
            /\ CharAt(s, i) = ":"
            /\ \A j \in 1..(i - 1) : CharAt(s, j) # ":"
    ELSE 0

BeforeColon(s) == SubSeq(s, 1, ColonAt(s) - 1)
AfterColon(s) == SubSeq(s, ColonAt(s) + 1, Len(s))

\* what %p reads in the last two characters of s, "" if they are neither am
\* nor pm in any case of the letters; and what precedes them
Meridiem(s) ==
    LET t == SubSeq(s, Len(s) - 1, Len(s))
    IN  IF MatchesIgnoringCase(t, "am") THEN "am"
        ELSE IF MatchesIgnoringCase(t, "pm") THEN "pm"
        ELSE ""
BeforeMeridiem(s) == SubSeq(s, 1, Len(s) - 2)

\* the 24-hour hour of a 12-hour clock reading
Hour24(h, p) ==
    IF p = "am" THEN (IF h = 12 THEN 0 ELSE h)
    ELSE (IF h = 12 THEN 12 ELSE h + 12)

\* strptime(s, '%I:%M%p').time(); None stands for the ValueError
strptime_I_M_p(s) ==
    IF /\ ColonAt(s) # 0
       /\ MatchesI(BeforeColon(s))
       /\ Len(AfterColon(s)) >= 3
       /\ Meridiem(s) \in {"am", "pm"}
       /\ MatchesM(BeforeMeridiem(AfterColon(s)))
    THEN <<Hour24(NumVal(BeforeColon(s)), Meridiem(s)),
           NumVal(BeforeMeridiem(AfterColon(s)))>>
    ELSE None

\* strptime(s, '%I:%M %p').time(); None stands for the ValueError
strptime_I_M_sp_p(s) ==
    IF /\ ColonAt(s) # 0
       /\ MatchesI(BeforeColon(s))
       /\ Len(AfterColon(s)) >= 4
       /\ Meridiem(s) \in {"am", "pm"}
       /\ rstrip(BeforeMeridiem(AfterColon(s))) # BeforeMeridiem(AfterColon(s))
       /\ MatchesM(rstrip(BeforeMeridiem(AfterColon(s))))
    THEN <<Hour24(NumVal(BeforeColon(s)), Meridiem(s)),
           NumVal(rstrip(BeforeMeridiem(AfterColon(s))))>>
    ELSE None

\* strptime(s, '%H:%M').time(); None stands for the ValueError
strptime_H_M(s) ==
    IF /\ ColonAt(s) # 0
       /\ MatchesH(BeforeColon(s))
       /\ MatchesM(AfterColon(s))
    THEN <<NumVal(BeforeColon(s)), NumVal(AfterColon(s))>>
    ELSE None

TwoDigits(n) == CharAt(DigitChars, (n \div 10) + 1) \o CharAt(DigitChars, (n % 10) + 1)

\* t.strftime('%I:%M %p')
strftime_I_M_p(t) ==
    TwoDigits(IF t[1] % 12 = 0 THEN 12 ELSE t[1] % 12) \o ":" \o TwoDigits(t[2])
        \o (IF t[1] < 12 THEN " AM" ELSE " PM")

\* a < b for two datetime.time values
TimeLess(a, b) == a[1] < b[1] \/ (a[1] = b[1] /\ a[2] < b[2])

(***************************************************************************)
(* Module constants of Dailyschedule.py                                    *)
(***************************************************************************)
MORNING_CUTOFF == <<12, 0>>
AFTERNOON_NO_TRADE_START == <<13, 55>>
NO_TRADE_KEYWORDS ==
    <<"FOMC Statement", "FOMC Press Conference", "Interest Rate Decision",
      "Monetary Policy Report">>
FORCED_HIGH_IMPACT_KEYWORDS ==
    <<"Powell Speaks", "Fed Chair", "Non-Farm", "NFP", "CPI",
      "Consumer Price Index", "PPI", "Producer Price Index", "GDP">>

(***************************************************************************)
(* parse_time and parse_impact.  The argument is a boxed value.            *)
(***************************************************************************)
\* Python's truth value of a str or None (pd.isna of a str is False)
Falsy(v) == IsNone(v) \/ StrOf(v) = ""

\* parse_time as it would be without the format '%I:%M %p'
parse_time_NoSpaceFormat(time_str) ==
    IF Falsy(time_str) \/ lower(StrOf(time_str)) \in {"empty", ""} THEN None
    ELSE LET s == strip(StrOf(time_str))
             t1 == strptime_I_M_p(s)
         IN  IF t1 # None THEN t1 ELSE strptime_H_M(s)

\* parse_time as it would be were line 137 `return time(0, 0)`
parse_time_DefaultMidnight(time_str) ==
    IF Falsy(time_str) \/ lower(StrOf(time_str)) \in {"empty", ""} THEN None
    ELSE LET s == strip(StrOf(time_str))
             t1 == strptime_I_M_p(s)
             t2 == strptime_I_M_sp_p(s)
             t3 == strptime_H_M(s)
         IN  IF t1 # None THEN t1
             ELSE IF t2 # None THEN t2
             ELSE IF t3 # None THEN t3
             ELSE <<0, 0>>

parse_time(time_str) ==
    IF Falsy(time_str) \/ lower(StrOf(time_str)) \in {"empty", ""} THEN None
    ELSE LET s == strip(StrOf(time_str))
             t1 == strptime_I_M_p(s)
             t2 == strptime_I_M_sp_p(s)
         IN  IF t1 # None THEN t1
             ELSE IF t2 # None THEN t2
             ELSE strptime_H_M(s)

\* parse_impact as it would be were "low" tested first
parse_impact_LowFirst(impact_str) ==
    IF Falsy(impact_str) THEN "Low"
    ELSE LET lowered == lower(StrOf(impact_str))
         IN  IF Contains("low", lowered) THEN "Low"
             ELSE IF Contains("high", lowered) THEN "High"
             ELSE IF Contains("medium", lowered) THEN "Medium"
             ELSE "Low"

parse_impact(impact_str) ==
    IF Falsy(impact_str) THEN "Low"
    ELSE LET lowered == lower(StrOf(impact_str))
         IN  IF Contains("high", lowered) THEN "High"
             ELSE IF Contains("medium", lowered) THEN "Medium"
             ELSE "Low"

(***************************************************************************)
(* parse_date: datetime.strptime(str(date_str).strip(), '%d/%m/%Y').date() *)
(* with ValueError and TypeError turned into None.  A date is <<y, m, d>>. *)
(* A value that is neither a str nor None is the pair of its type name and *)
(* of the text str() gives for it.                                         *)
(*   %d  3[0-1]|[1-2]\d|0[1-9]|[1-9]| [1-9]    %m  1[0-2]|0[1-9]|[1-9]     *)
(*   %Y  \d\d\d\d                                                          *)
(***************************************************************************)
NonStr(type, text) == <<type, text>>

\* str(v)
py_str(v) ==
    IF IsNone(v) THEN "None"
    ELSE IF Len(v) = 2 THEN v[2]
    ELSE StrOf(v)

SlashPositions(s) == {i \in 1..Len(s) : CharAt(s, i) = "/"}

\* the three fields of s between its two '/', None if it has not two
DateFields(s) ==
    IF Cardinality(SlashPositions(s)) # 2 THEN None
    ELSE LET p1 == CHOOSE i \in SlashPositions(s) :
                       \A j \in SlashPositions(s) : i <= j
             p2 == CHOOSE i \in SlashPositions(s) :
                       \A j \in SlashPositions(s) : j <= i
         IN  <<SubSeq(s, 1, p1 - 1), SubSeq(s, p1 + 1, p2 - 1),
               SubSeq(s, p2 + 1, Len(s))>>

\* 3[0-1]|[1-2]\d|0[1-9]|[1-9]| [1-9]
Matches_d(s) ==
    \/ Len(s) = 1 /\ InClass(s, 1, 9)
    \/ /\ Len(s) = 2
       /\ \/ CharAt(s, 1) = "3" /\ InClass(CharAt(s, 2), 0, 1)
          \/ InClass(CharAt(s, 1), 1, 2) /\ IsDigit(CharAt(s, 2))
          \/ CharAt(s, 1) \in {"0", " "} /\ InClass(CharAt(s, 2), 1, 9)

\* 1[0-2]|0[1-9]|[1-9]
Matches_m(s) == MatchesI(s)

\* \d\d\d\d
Matches_Y(s) == Len(s) = 4 /\ \A i \in 1..4 : IsDigit(CharAt(s, i))

\* int() of the text matched by %d
DayVal(s) == IF CharAt(s, 1) = " " THEN DigitVal(CharAt(s, 2)) ELSE NumVal(s)

YearVal(s) == 100 * NumVal(SubSeq(s, 1, 2)) + NumVal(SubSeq(s, 3, 4))

IsLeap(y) == y % 4 = 0 /\ (y % 100 # 0 \/ y % 400 = 0)

DaysInMonth(y, m) ==
    IF m = 2 THEN (IF IsLeap(y) THEN 29 ELSE 28)
    ELSE IF m \in {4, 6, 9, 11} THEN 30
    ELSE 31

\* the date of the fields matched by %d, %m and %Y; None stands for the
\* ValueError of a field that does not match or of a date that does not exist
DateOf(dd, mm, yyyy) ==
    IF /\ Matches_d(dd)
       /\ Matches_m(mm)
       /\ Matches_Y(yyyy)
       /\ YearVal(yyyy) >= 1
       /\ DayVal(dd) <= DaysInMonth(YearVal(yyyy), NumVal(mm))
    THEN <<YearVal(yyyy), NumVal(mm), DayVal(dd)>>
    ELSE None

\* strptime(s, '%d/%m/%Y').date()
strptime_d_m_Y(s) ==
    LET f == DateFields(s)
    IN  IF f = None THEN None ELSE DateOf(f[1], f[2], f[3])

\* parse_date as it would be were the format '%m/%d/%Y'
parse_date_MonthFirst(date_str) ==
    LET f == DateFields(strip(py_str(date_str)))
    IN  IF f = None THEN None ELSE DateOf(f[2], f[1], f[3])

\* lines 122-124
parse_date(date_str) == strptime_d_m_Y(strip(py_str(date_str)))

(***************************************************************************)
(* datetime.date arithmetic of ffscraper.py: weekday(), + timedelta(days)  *)
(* and the comparison of two dates.                                        *)
(***************************************************************************)
\* days of the months of the year y before the month m
RECURSIVE DaysBeforeMonth(_, _)
DaysBeforeMonth(y, m) ==
    IF m = 1 THEN 0 ELSE DaysBeforeMonth(y, m - 1) + DaysInMonth(y, m - 1)

\* date.toordinal(): 1 for 1 January of the year 1
toordinal(d) ==
    LET y == d[1] - 1
    IN  365 * y + (y \div 4) - (y \div 100) + (y \div 400)
            + DaysBeforeMonth(d[1], d[2]) + d[3]

\* date.weekday(): 0 for Monday, 6 for Sunday
weekday(d) == (toordinal(d) + 6) % 7

NextDay(d) ==
    IF d[3] < DaysInMonth(d[1], d[2]) THEN <<d[1], d[2], d[3] + 1>>
    ELSE IF d[2] < 12 THEN <<d[1], d[2] + 1, 1>>
    ELSE <<d[1] + 1, 1, 1>>

PrevDay(d) ==
    IF d[3] > 1 THEN <<d[1], d[2], d[3] - 1>>
    ELSE IF d[2] > 1 THEN <<d[1], d[2] - 1, DaysInMonth(d[1], d[2] - 1)>>
    ELSE <<d[1] - 1, 12, 31>>

\* d + timedelta(days=n)
RECURSIVE AddDays(_, _)
AddDays(d, n) ==
    IF n = 0 THEN d
    ELSE IF n > 0 THEN AddDays(NextDay(d), n - 1)
    ELSE AddDays(PrevDay(d), n + 1)

\* a <= b for two dates
DateLeq(a, b) ==
    \/ a[1] < b[1]
    \/ a[1] = b[1] /\ a[2] < b[2]
    \/ a[1] = b[1] /\ a[2] = b[2] /\ a[3] <= b[3]

(***************************************************************************)
(* convert_gmt_to_gmt_minus_5(time_str, date_str), lines 136-172 of        *)
(* ffscraper.py.  time_str is a str, date_str a str or None.               *)
(***************************************************************************)
special_times == {"all day", "day 1", "day 2", "tentative", "holiday", "tbd"}

\* s.lstrip('0')
RECURSIVE lstrip0(_)
lstrip0(s) ==
    IF s # "" /\ CharAt(s, 1) = "0" THEN lstrip0(SubSeq(s, 2, Len(s))) ELSE s

\* t.strftime("%I:%M%p").lower().lstrip('0')
strftime_I_M_p_lower(t) ==
    lstrip0(TwoDigits(IF t[1] % 12 = 0 THEN 12 ELSE t[1] % 12) \o ":"
                \o TwoDigits(t[2]) \o (IF t[1] < 12 THEN "am" ELSE "pm"))

\* gmt_datetime.astimezone(gmt_minus_5_tz) of the UTC datetime of the date d
\* and the time t: the zone Etc/GMT+5 is five hours behind UTC on every date
astimezone_Etc_GMT_plus_5(d, t) ==
    IF t[1] >= 5 THEN <<d, <<t[1] - 5, t[2]>>>>
    ELSE <<PrevDay(d), <<t[1] + 19, t[2]>>>>

\* astimezone raises OverflowError ("date value out of range") when the
\* local datetime falls before 1 January of the year 1
Overflows(d, t) == d = <<1, 1, 1>> /\ t[1] < 5

\* what a call gives: the value it returns, or the exception that leaves it
Returns(v) == [value |-> v]
Raises(e) == [raised |-> e]
HasRaised(r) == "raised" \in DOMAIN r

\* lines 136-172; line 170 catches ValueError and TypeError, so that the
\* OverflowError of astimezone leaves the function
convert_gmt_to_gmt_minus_5(time_str, date_str) ==
    IF \/ time_str = ""
       \/ time_str = "empty"
       \/ Falsy(date_str)
       \/ StrOf(date_str) = "empty"
    THEN Returns(time_str)
    ELSE IF lower(time_str) \in special_times THEN Returns(time_str)
    ELSE LET date_obj == strptime_d_m_Y(StrOf(date_str))
             lowered == lower(time_str)
             time_obj == IF Contains("am", lowered) \/ Contains("pm", lowered)
                         THEN strptime_I_M_p(time_str)
                         ELSE strptime_H_M(time_str)
         IN  IF date_obj = None \/ time_obj = None THEN Returns(time_str)
             ELSE IF Overflows(date_obj, time_obj) THEN Raises("OverflowError")
             ELSE Returns(strftime_I_M_p_lower(
                            astimezone_Etc_GMT_plus_5(date_obj, time_obj)[2]))

\* get_current_week_range as it would be were the week of a Saturday or
\* Sunday the one that has just ended
get_current_week_range_WeekJustEnded(today) ==
    LET monday == AddDays(today, 0 - weekday(today))
    IN  <<monday, AddDays(monday, 4)>>

\* lines 174-191, for datetime.now().date() = today
get_current_week_range(today) ==
    LET current_weekday == weekday(today)
        monday == IF current_weekday >= 5
                  THEN AddDays(today, 7 - current_weekday)
                  ELSE AddDays(today, 0 - current_weekday)
        friday == AddDays(monday, 4)
    IN  <<monday, friday>>

(***************************************************************************)
(* The body of the for loop of analyze_day_events, for one raw event e.    *)
(***************************************************************************)
Range(q) == {q[i] : i \in DOMAIN q}

\* AnyKeywordIn as it would be were the test `k in name`, without .lower()
AnyKeywordIn_CaseSensitive(keywords, name) ==
    \E k \in Range(keywords) : Contains(k, name)

\* any(k.lower() in name.lower() for k in keywords)
AnyKeywordIn(keywords, name) ==
    LET lowered == lower(name)
    IN  \E k \in Range(keywords) : Contains(lower(k), lowered)

\* line 289 calls .strip() on the currency and line 291 .lower() on the event
\* name: either raises AttributeError when the value is None
RaisesAttributeError(e) ==
    \/ IsNone(Get(e, "currency", Str("")))
    \/ IsNone(Get(e, "event", Str("")))

event_time(e) == parse_time(Get(e, "time", Str("")))
event_name(e) == StrOf(Get(e, "event", Str("")))
\* currency as it would be were line 289 `.upper()` without `.strip()`
currency_NoStrip(e) == upper(StrOf(Get(e, "currency", Str(""))))

currency(e) == upper(strip(StrOf(Get(e, "currency", Str("")))))
parsed_impact(e) == parse_impact(Get(e, "impact", Str("")))
is_forced_high(e) == AnyKeywordIn(FORCED_HIGH_IMPACT_KEYWORDS, event_name(e))
is_high_impact(e) == parsed_impact(e) = "High" \/ is_forced_high(e)

\* display_impact as it would be were the forcing applied to USD events only
display_impact_ForcedUsdOnly(e) ==
    LET forced == is_forced_high(e)
        parsed == parsed_impact(e)
    IN  IF forced /\ parsed # "High" /\ currency(e) = "USD" THEN "High (Forced)"
        ELSE IF parsed = "High" \/ forced THEN "High"
        ELSE parsed

\* line 293; `parsed = "High" \/ forced` is is_high_impact
display_impact(e) ==
    LET forced == is_forced_high(e)
        parsed == parsed_impact(e)
    IN  IF forced /\ parsed # "High" THEN "High (Forced)"
        ELSE IF parsed = "High" \/ forced THEN "High"
        ELSE parsed

event_details(e) ==
    LET t == event_time(e)
    IN  [name |-> event_name(e),
         currency |-> currency(e),
         impact |-> display_impact(e),
         time |-> IF t # None THEN strftime_I_M_p(t) ELSE "All Day",
         raw_time |-> t]

\* Bucket as it would be were only an absent or empty time string all-day
Bucket_UnparsedToAfternoon(e) ==
    LET t == event_time(e)
    IN  IF t # None /\ TimeLess(t, MORNING_CUTOFF) THEN "morning"
        ELSE IF t = None /\ Falsy(Get(e, "time", Str(""))) THEN "all_day"
        ELSE "afternoon"

\* Bucket as it would be were an event at MORNING_CUTOFF itself a morning one
Bucket_CutoffInclusive(e) ==
    LET t == event_time(e)
    IN  IF t = None THEN "all_day"
        ELSE IF ~TimeLess(MORNING_CUTOFF, t) THEN "morning"
        ELSE "afternoon"

\* lines 295-297: which bucket the event is appended to
Bucket(e) ==
    LET t == event_time(e)
    IN  IF t = None THEN "all_day"
        ELSE IF TimeLess(t, MORNING_CUTOFF) THEN "morning"
        ELSE "afternoon"

\* NoTradeCondition as it would be were the escalation tied to high impact
NoTradeCondition_RequiresHighImpact(e) ==
    /\ currency(e) = "USD"
    /\ is_high_impact(e)
    /\ AnyKeywordIn(NO_TRADE_KEYWORDS, event_name(e))
    /\ LET t == event_time(e)
       IN  t # None /\ ~TimeLess(t, AFTERNOON_NO_TRADE_START)

\* NoTradeCondition as it would be without the comparison with
\* AFTERNOON_NO_TRADE_START
NoTradeCondition_AnyParsedTime(e) ==
    /\ currency(e) = "USD"
    /\ AnyKeywordIn(NO_TRADE_KEYWORDS, event_name(e))
    /\ event_time(e) # None

\* lines 298-300: the condition of the early return.  A datetime.time is
\* always true, so `event_time and ...` tests event_time against None.
NoTradeCondition(e) ==
    /\ currency(e) = "USD"
    /\ AnyKeywordIn(NO_TRADE_KEYWORDS, event_name(e))
    /\ LET t == event_time(e)
       IN  t # None /\ ~TimeLess(t, AFTERNOON_NO_TRADE_START)

\* HighImpactUsdCondition as it would be were the forced keywords left out
HighImpactUsdCondition_ReportedOnly(e) ==
    /\ currency(e) = "USD"
    /\ parsed_impact(e) = "High"
    /\ event_time(e) # None

\* HighImpactUsdCondition as it would be without the test of event_time
HighImpactUsdCondition_AnyTime(e) ==
    /\ currency(e) = "USD"
    /\ is_high_impact(e)

\* lines 298 and 302: the condition that sets has_high_impact_usd_event
HighImpactUsdCondition(e) ==
    /\ currency(e) = "USD"
    /\ is_high_impact(e)
    /\ event_time(e) # None

\* NoTradeReason as it would be were the time string of the record used
NoTradeReason_RawTime(e) ==
    "Critical afternoon USD event '" \o event_name(e) \o "' at "
        \o StrOf(Get(e, "time", Str(""))) \o "."

\* line 301: the reason of the early return
NoTradeReason(e) ==
    "Critical afternoon USD event '" \o event_name(e) \o "' at "
        \o strftime_I_M_p(event_time(e)) \o "."

StandardReason == "No high-impact USD news found. Proceed with the Standard Day Plan."
NewsReason == "High-impact USD news detected. The News Day Plan is active."

(***************************************************************************)
(* Inputs: the lists of at most MaxEvents raw event records.               *)
(***************************************************************************)
MaxEvents == 2

Ev(t, c, i, n) == [time |-> Str(t), currency |-> Str(c), impact |-> Str(i), event |-> Str(n)]

\* a record that also has the 'date' key of the scraped rows
EvD(t, c, i, n, d) ==
    [time |-> Str(t), currency |-> Str(c), impact |-> Str(i), event |-> Str(n),
     date |-> Str(d)]

RawEvents ==
    {Ev(t, "USD", i, n) :
        t \in {"Tentative", "8:30am", "1:54pm", "2:00pm"},
        i \in {"High", "Low"},
        n \in {"FOMC Statement", "CPI m/m", "Unemployment Claims"}}
    \cup
    {Ev(t, "EUR", "High", n) :
        t \in {"8:30am", "2:00pm"},
        n \in {"ECB Interest Rate Decision", "German Prelim CPI m/m"}}
    \cup
    {Ev("12:00pm", "USD", "Medium", "ISM Services PMI"),
     Ev("11:59am", "USD", "High Impact Expected", "Retail Sales m/m"),
     Ev("1:55pm", "USD", "Low", "fomc press conference"),
     Ev("13:55", "USD", "", "Fed Interest Rate Decision"),
     Ev("7:01 pm", " usd ", "low", "Fed Chair Powell Speaks"),
     Ev("12:00am", "Usd", "HIGH", "Bank Holiday"),
     Ev("All Day", "USD", "High", "Monetary Policy Report"),
     Ev("Day 1", "USD", "Low", "Fed Chair Powell Speaks at FOMC Press Conference"),
     Ev("", "USD", "High", "Non-Farm Employment Change"),
     Ev("empty", "GBP", "Medium", "GDP q/q"),
     Ev("  ", "USD", "High", "FOMC Statement"),
     Ev("3:00pm", "usd ", "Medium", "FOMC Press Conference"),
     Ev("8:30am", "USD", "Low", "Atlanta Fed GDPNow"),
     Ev("10:00am", "USD", "Low", "CPI Press Conference"),
     Ev("2:30pm", "USD", "Low", "fomc statement"),
     Ev("2:00 pm", " usd\f", "High", "FOMC Statement"),
     Ev("9:30am", "écu", "médium", "ÉCOFIN Meetings"),
     Ev("1۳:55", " usd", "High", "FOMC Statement"),
     Ev("8:3۳am", "USD", "hΙgh", "ΣΟΦΟΣ nfp"),
     EvD("8:30am", "USD", "High", "CPI m/m", "01/07/2025"),
     EvD("8:30am", "USD", "High", "CPI m/m", "02/07/2025"),
     EvD("2:00pm", "USD", "High", "FOMC Statement", "02/07/2025"),
     EvD("9:45am", "EUR", "Low", "Flash Manufacturing PMI", "01/07/2025"),
     [time |-> Str("2:00pm"), event |-> Str("FOMC Statement")],
     [currency |-> Str("USD"), event |-> Str("CPI y/y")],
     [time |-> Str("9:00am"), currency |-> Str("USD"), impact |-> Str("High")],
     [time |-> None, currency |-> Str("USD"), impact |-> None, event |-> Str("CPI m/m")],
     [time |-> Str("2:00pm"), currency |-> None, impact |-> Str("High"),
      event |-> Str("FOMC Statement")],
     [time |-> Str("8:30am"), currency |-> Str("USD"), impact |-> Str("High"),
      event |-> None]}

\* What one iteration of the loop (lines 288-302) computes from the raw event
\* e: whether it raises, and otherwise the normalized event, its bucket and
\* the two conditions on it.
LoopBody(e) ==
    IF RaisesAttributeError(e) THEN [raises |-> TRUE]
    ELSE [raises |-> FALSE,
          details |-> event_details(e),
          bucket |-> Bucket(e),
          no_trade |-> NoTradeCondition(e),
          no_trade_reason |-> IF NoTradeCondition(e) THEN NoTradeReason(e) ELSE "",
          high_usd |-> HighImpactUsdCondition(e)]

\* LoopBody tabulated over the input domain (the loop body is a function of
\* the event alone)
LoopBodyTable == [e \in RawEvents |-> LoopBody(e)]
Body(e) == LoopBodyTable[e]

EventLists == UNION {[1..n -> RawEvents] : n \in 0..MaxEvents}

(***************************************************************************)
(* analyze_day_events(target_date, events)                                 *)
(***************************************************************************)
\* scrape_calendar_data is not running
ScrapeIdle ==
    /\ scr_pc = "idle"
    /\ now = <<>>
    /\ reads = <<>>
    /\ has_table = FALSE
    /\ table = <<>>
    /\ row_i = 0
    /\ week_filter = FALSE
    /\ week_start = <<>>
    /\ week_end = <<>>
    /\ data = <<>>
    /\ current_date = <<>>
    /\ last_time = ""

\* ffscraper.main is not running
MainIdle ==
    /\ main_pc = "idle"
    /\ week_mode = FALSE
    /\ output = <<>>
    /\ driver = <<>>
    /\ attempt = 0
    /\ main_events = <<>>
    /\ raised = ""
    /\ log = <<>>
    /\ csv_written = FALSE
    /\ exit_status = -1

\* no parser is under application
ParsersIdle ==
    /\ fn = ""
    /\ arg = <<>>
    /\ out = [done |-> FALSE]

\* lines 285-286
Init ==
    /\ events \in EventLists
    /\ idx = 0
    /\ plan = "Standard Day Plan"
    /\ reason = StandardReason
    /\ has_high_impact_usd_event = FALSE
    /\ morning_events = <<>>
    /\ afternoon_events = <<>>
    /\ all_day_events = <<>>
    /\ pc = "loop"
    /\ ret = <<>>
    /\ exc = ""
    /\ target_date = <<2025, 7, 1>>
    /\ history = <<>>
    /\ ParsersIdle
    /\ MainIdle
    /\ ScrapeIdle

\* AppendToBucket as it would be were line 296 an `if` of its own: an event
\* without a time is appended to all_day_events and to afternoon_events
AppendToBucket_IfNotElif(d, b) ==
    /\ morning_events' =
         IF b = "morning" THEN Append(morning_events, d) ELSE morning_events
    /\ afternoon_events' =
         IF b \in {"afternoon", "all_day"} THEN Append(afternoon_events, d)
         ELSE afternoon_events
    /\ all_day_events' =
         IF b = "all_day" THEN Append(all_day_events, d) ELSE all_day_events

\* AppendToBucket as it would be were the event put at the head of its list
AppendToBucket_AtHead(d, b) ==
    /\ morning_events' =
         IF b = "morning" THEN <<d>> \o morning_events ELSE morning_events
    /\ afternoon_events' =
         IF b = "afternoon" THEN <<d>> \o afternoon_events ELSE afternoon_events
    /\ all_day_events' =
         IF b = "all_day" THEN <<d>> \o all_day_events ELSE all_day_events

\* lines 295-297: the normalized event d is appended to the bucket b
AppendToBucket(d, b) ==
    /\ morning_events' =
         IF b = "morning" THEN Append(morning_events, d) ELSE morning_events
    /\ afternoon_events' =
         IF b = "afternoon" THEN Append(afternoon_events, d) ELSE afternoon_events
    /\ all_day_events' =
         IF b = "all_day" THEN Append(all_day_events, d) ELSE all_day_events

\* an iteration that fails at line 289 or 291: the exception leaves the call
RaiseInLoop ==
    /\ pc = "loop"
    /\ idx < Len(events)
    /\ Body(events[idx + 1]).raises
    /\ pc' = "raised"
    /\ exc' = "AttributeError"
    /\ UNCHANGED <<events, idx, plan, reason, has_high_impact_usd_event,
                   morning_events, afternoon_events, all_day_events, ret>>
    /\ UNCHANGED <<callVars, parserVars, mainVars, scrapeVars>>

\* NoTradeReturn as it would be were the test of lines 298-301 placed before
\* the append of lines 295-297
NoTradeReturn_BeforeAppend ==
    /\ pc = "loop"
    /\ idx < Len(events)
    /\ LET b == Body(events[idx + 1])
       IN  /\ ~b.raises
           /\ b.no_trade
           /\ ret' = <<"No Trade Day", b.no_trade_reason,
                       morning_events, afternoon_events, all_day_events>>
    /\ idx' = idx + 1
    /\ pc' = "returned"
    /\ UNCHANGED <<events, plan, reason, has_high_impact_usd_event, exc,
                   morning_events, afternoon_events, all_day_events>>
    /\ UNCHANGED <<callVars, parserVars, mainVars, scrapeVars>>

\* an iteration that ends in the return of line 301
NoTradeReturn ==
    /\ pc = "loop"
    /\ idx < Len(events)
    /\ LET b == Body(events[idx + 1])
       IN  /\ ~b.raises
           /\ b.no_trade
           /\ AppendToBucket(b.details, b.bucket)
           /\ ret' = <<"No Trade Day", b.no_trade_reason,
                       morning_events', afternoon_events', all_day_events'>>
    /\ idx' = idx + 1
    /\ pc' = "returned"
    /\ UNCHANGED <<events, plan, reason, has_high_impact_usd_event, exc>>
    /\ UNCHANGED <<callVars, parserVars, mainVars, scrapeVars>>

\* ProcessEvent as it would be were an event whose date is not target_date
\* passed over
ProcessEvent_SkipOtherDates ==
    /\ pc = "loop"
    /\ idx < Len(events)
    /\ LET b == Body(events[idx + 1])
       IN  /\ ~b.raises
           /\ ~b.no_trade
           /\ IF parse_date(Get(events[idx + 1], "date", Str(""))) = target_date
              THEN /\ AppendToBucket(b.details, b.bucket)
                   /\ has_high_impact_usd_event' =
                          (has_high_impact_usd_event \/ b.high_usd)
              ELSE UNCHANGED <<morning_events, afternoon_events, all_day_events,
                               has_high_impact_usd_event>>
    /\ idx' = idx + 1
    /\ UNCHANGED <<events, plan, reason, pc, ret, exc>>
    /\ UNCHANGED <<callVars, parserVars, mainVars, scrapeVars>>

\* an iteration that runs to the end of the loop body (lines 288-302)
ProcessEvent ==
    /\ pc = "loop"
    /\ idx < Len(events)
    /\ LET b == Body(events[idx + 1])
       IN  /\ ~b.raises
           /\ ~b.no_trade
           /\ AppendToBucket(b.details, b.bucket)
           /\ has_high_impact_usd_event' = (has_high_impact_usd_event \/ b.high_usd)
    /\ idx' = idx + 1
    /\ UNCHANGED <<events, plan, reason, pc, ret, exc>>
    /\ UNCHANGED <<callVars, parserVars, mainVars, scrapeVars>>

\* lines 303-305, after the loop has run over every event
ReturnPlan ==
    /\ pc = "loop"
    /\ idx = Len(events)
    /\ plan' = IF has_high_impact_usd_event THEN "News Day Plan" ELSE plan
    /\ reason' = IF has_high_impact_usd_event THEN NewsReason ELSE reason
    /\ ret' = <<plan', reason', morning_events, afternoon_events, all_day_events>>
    /\ pc' = "returned"
    /\ UNCHANGED <<events, idx, has_high_impact_usd_event,
                   morning_events, afternoon_events, all_day_events, exc>>
    /\ UNCHANGED <<callVars, parserVars, mainVars, scrapeVars>>

Next == RaiseInLoop \/ NoTradeReturn \/ ProcessEvent \/ ReturnPlan

Spec == Init /\ [][Next]_vars

(***************************************************************************)
(* The vocabulary of the properties.  What the specification says of one   *)
(* raw event is stated here from the parsers and the keyword lists alone,  *)
(* apart from the loop body above, and tabulated over the input domain.    *)
(***************************************************************************)
Minutes(t) == t[1] * 60 + t[2]

\* every field the loop body calls a str method on is a str
FieldsAreStrings(e) ==
    /\ ~IsNone(Get(e, "currency", Str("")))
    /\ ~IsNone(Get(e, "event", Str("")))

Facts(e) ==
    IF ~FieldsAreStrings(e) THEN [strings |-> FALSE]
    ELSE LET t == parse_time(Get(e, "time", Str("")))
             name == StrOf(Get(e, "event", Str("")))
             cur == upper(strip(StrOf(Get(e, "currency", Str("")))))
             parsed == parse_impact(Get(e, "impact", Str("")))
             forced == AnyKeywordIn(FORCED_HIGH_IMPACT_KEYWORDS, name)
             label == IF forced /\ parsed # "High" THEN "High (Forced)" ELSE parsed
         IN  [strings |-> TRUE,
              t |-> t,
              usd |-> cur = "USD",
              parsed |-> parsed,
              forced |-> forced,
              no_trade_keyword |-> AnyKeywordIn(NO_TRADE_KEYWORDS, name),
              label |-> label,
              normalized |->
                  [name |-> name, currency |-> cur, impact |-> label,
                   time |-> IF t = None THEN "All Day" ELSE strftime_I_M_p(t),
                   raw_time |-> t]]

FactsTable == [e \in RawEvents |-> Facts(e)]
F(e) == FactsTable[e]

\* a USD event whose name holds a no-trade keyword, with a parsed time >= 13:55
IsNoTradeEvent(e) ==
    /\ F(e).strings
    /\ F(e).usd
    /\ F(e).no_trade_keyword
    /\ F(e).t # None
    /\ Minutes(F(e).t) >= 13 * 60 + 55

\* a USD event of high impact (reported or forced) with a parsed time
IsHighImpactUsdEvent(e) ==
    /\ F(e).strings
    /\ F(e).usd
    /\ (F(e).parsed = "High" \/ F(e).forced)
    /\ F(e).t # None

Count(q, v) == Cardinality({i \in DOMAIN q : q[i] = v})

\* the sequences a and b hold the same elements, each the same number of times
SameElements(a, b) ==
    /\ Len(a) = Len(b)
    /\ \A v \in Range(a) \cup Range(b) : Count(a, v) = Count(b, v)

\* the normalized events of the first n input records, in input order
NormalizedPrefix(n) == [i \in 1..n |-> F(events[i]).normalized]

Returned == pc = "returned"
RetPlan == ret[1]
RetBuckets == ret[3] \o ret[4] \o ret[5]

\* the three buckets as they stand: the locals, and the returned ones after the return
Morning == IF Returned THEN ret[3] ELSE morning_events
Afternoon == IF Returned THEN ret[4] ELSE afternoon_events
AllDay == IF Returned THEN ret[5] ELSE all_day_events

(***************************************************************************)
(* Properties of analyze_day_events                                        *)
(***************************************************************************)

\* C1: when the call returns a plan other than "No Trade Day", the three
\* returned buckets together hold the normalized event of every input
\* record exactly once: their lengths sum to the length of the input and
\* nothing is duplicated or dropped.
C1_EveryEventInExactlyOneBucket ==
    (Returned /\ RetPlan # "No Trade Day") =>
        /\ Len(ret[3]) + Len(ret[4]) + Len(ret[5]) = Len(events)
        /\ SameElements(RetBuckets, NormalizedPrefix(Len(events)))

\* two records went to two different buckets, one of them all-day
C1_Witness ==
    /\ Returned
    /\ RetPlan # "No Trade Day"
    /\ Len(events) = 2
    /\ Len(ret[3]) = 1
    /\ Len(ret[5]) = 1

\* C2: if some USD event of the input has a no-trade keyword in its name and a
\* parsed time >= 13:55, the returned plan is "No Trade Day", whatever its
\* impact and whatever events precede or follow it.
C2_NoTradeEventForcesNoTradeDay ==
    (Returned /\ \E i \in 1..Len(events) : IsNoTradeEvent(events[i])) =>
        RetPlan = "No Trade Day"

\* "No Trade Day" was returned for a low-impact event that came after a
\* high-impact USD event
C2_Witness ==
    /\ Returned
    /\ RetPlan = "No Trade Day"
    /\ idx = 2
    /\ IsHighImpactUsdEvent(events[1])
    /\ F(events[2]).parsed = "Low"
    /\ ~F(events[2]).forced

\* C3: when the early return fires at input record i, the returned buckets
\* hold exactly the normalized events of records 1..i, the triggering one
\* included, and none of the later records.
C3_NoTradeBucketsAreThePrefix ==
    (Returned /\ RetPlan = "No Trade Day") =>
        /\ idx \in 1..Len(events)
        /\ IsNoTradeEvent(events[idx])
        /\ SameElements(RetBuckets, NormalizedPrefix(idx))

\* the early return fired at the first of two records: the second is dropped
C3_Witness ==
    /\ Returned
    /\ RetPlan = "No Trade Day"
    /\ idx = 1
    /\ Len(events) = 2
    /\ Len(RetBuckets) = 1

\* C4: when no event is a no-trade event, the plan is "News Day Plan" exactly
\* when some event is a high-impact USD event with a parsed time, and
\* "Standard Day Plan" otherwise; the empty list gives "Standard Day Plan"
\* and three empty buckets.
C4_NewsDayIffHighImpactUsd ==
    (Returned /\ \A i \in 1..Len(events) : ~IsNoTradeEvent(events[i])) =>
        /\ RetPlan =
             IF \E i \in 1..Len(events) : IsHighImpactUsdEvent(events[i])
             THEN "News Day Plan" ELSE "Standard Day Plan"
        /\ events = <<>> => (ret[3] = <<>> /\ ret[4] = <<>> /\ ret[5] = <<>>)

\* "News Day Plan" was returned on the strength of a forced keyword alone
C4_Witness ==
    /\ Returned
    /\ RetPlan = "News Day Plan"
    /\ \A i \in 1..Len(events) : F(events[i]).parsed # "High"
    /\ \E i \in 1..Len(events) : IsHighImpactUsdEvent(events[i])

\* C5: the call never raises, whatever the shape of the input: it always
\* returns a 5-tuple, also when a field is present but null.
C5_NeverRaises ==
    /\ pc # "raised"
    /\ exc = ""
    /\ Returned => Len(ret) = 5

\* C6: "No Trade Day" is returned only by the early return of the loop, at a
\* USD event with a no-trade keyword and a parsed time >= 13:55; a return
\* after the loop has completed gives "News Day Plan" or "Standard Day Plan".
C6_NoTradeOnlyByEarlyReturn ==
    Returned =>
        IF RetPlan = "No Trade Day"
        THEN idx \in 1..Len(events) /\ IsNoTradeEvent(events[idx])
        ELSE idx = Len(events) /\ RetPlan \in {"News Day Plan", "Standard Day Plan"}

\* the loop completed over a USD no-trade-keyword event at 13:54
C6_Witness ==
    /\ Returned
    /\ RetPlan # "No Trade Day"
    /\ \E i \in 1..Len(events) :
          /\ F(events[i]).usd
          /\ F(events[i]).no_trade_keyword
          /\ F(events[i]).t = <<13, 54>>

\* C7: every processed event without a parsed time is in the all-day bucket
\* and in neither of the other two.
C7_NoParsedTimeIsAllDay ==
    \A i \in 1..idx :
        F(events[i]).t = None =>
            /\ F(events[i]).normalized \in Range(AllDay)
            /\ F(events[i]).normalized \notin Range(Morning) \cup Range(Afternoon)

\* an event whose time string is a placeholder was placed all-day
C7_Witness ==
    /\ idx >= 1
    /\ Get(events[idx], "time", Str("")) = Str("Tentative")
    /\ Len(AllDay) = 1
    /\ AllDay[1].time = "All Day"

\* C8: every processed event with a parsed time before 12:00 is in the
\* morning bucket, and every one with a parsed time at or after 12:00 is in
\* the afternoon bucket.
C8_MorningBeforeNoonElseAfternoon ==
    \A i \in 1..idx :
        F(events[i]).t # None =>
            IF Minutes(F(events[i]).t) < 12 * 60
            THEN /\ F(events[i]).normalized \in Range(Morning)
                 /\ F(events[i]).normalized \notin Range(Afternoon) \cup Range(AllDay)
            ELSE /\ F(events[i]).normalized \in Range(Afternoon)
                 /\ F(events[i]).normalized \notin Range(Morning) \cup Range(AllDay)

\* an event at 11:59 is in the morning bucket and one at 12:00 in the afternoon one
C8_Witness ==
    /\ idx = 2
    /\ F(events[1]).t = <<11, 59>>
    /\ F(events[2]).t = <<12, 0>>
    /\ Len(Morning) = 1
    /\ Len(Afternoon) = 1
    /\ Afternoon[1].raw_time = <<12, 0>>

\* C9: the iteration over an event whose time does not parse never returns
\* "No Trade Day" and never sets the high-impact flag, whatever its currency,
\* impact and name; it appends the event, with its impact label, to the
\* all-day bucket.
C9_UnparsedTimeNeverEscalates ==
    [][(/\ pc = "loop"
        /\ idx < Len(events)
        /\ F(events[idx + 1]).strings
        /\ F(events[idx + 1]).t = None)
       => (/\ pc' = "loop"
           /\ idx' = idx + 1
           /\ has_high_impact_usd_event' = has_high_impact_usd_event
           /\ all_day_events' = Append(all_day_events, F(events[idx + 1]).normalized)
           /\ morning_events' = morning_events
           /\ afternoon_events' = afternoon_events)]_vars

\* a USD event with a no-trade keyword and a forced keyword but no parsed time
\* was processed: the flag is unset and the event is all-day, "High (Forced)"
C9_Witness ==
    /\ pc = "loop"
    /\ idx = 1
    /\ F(events[1]).usd
    /\ F(events[1]).no_trade_keyword
    /\ F(events[1]).forced
    /\ F(events[1]).t = None
    /\ ~has_high_impact_usd_event
    /\ Len(all_day_events) = 1
    /\ all_day_events[1].impact = "High (Forced)"

\* C10: every impact label is one of the four; the label of a processed
\* event is "High (Forced)" exactly when its name has a forced keyword and
\* its parsed impact is not "High", "High" exactly when its parsed impact is
\* "High", and its parsed impact otherwise, for every currency.
C10_ImpactLabel ==
    /\ \A d \in Range(Morning) \cup Range(Afternoon) \cup Range(AllDay) :
          d.impact \in {"High", "Medium", "Low", "High (Forced)"}
    /\ \A i \in 1..idx :
          \E d \in Range(Morning) \cup Range(Afternoon) \cup Range(AllDay) :
              /\ d.name = F(events[i]).normalized.name
              /\ d.currency = F(events[i]).normalized.currency
              /\ d.raw_time = F(events[i]).t
              /\ d.impact = "High (Forced)" <=>
                    (F(events[i]).forced /\ F(events[i]).parsed # "High")
              /\ d.impact = "High" <=> F(events[i]).parsed = "High"
              /\ d.impact \notin {"High", "High (Forced)"} => d.impact = F(events[i]).parsed

\* an event of another currency than USD carries the label "High (Forced)"
C10_Witness ==
    \E d \in Range(Morning) \cup Range(Afternoon) \cup Range(AllDay) :
        d.currency = "GBP" /\ d.impact = "High (Forced)"

\* the reason the early return gives for the event e: its name and its time
\* of day as "HH:MM AM/PM"
ExpectedNoTradeReason(e) ==
    "Critical afternoon USD event '" \o F(e).normalized.name \o "' at "
        \o F(e).normalized.time \o "."

\* C11: when the plan is "No Trade Day", the reason names the first event in
\* input order that is a no-trade event, with that event's time, and no
\* later one.
C11_ReasonNamesFirstNoTradeEvent ==
    (Returned /\ RetPlan = "No Trade Day") =>
        \E i \in 1..Len(events) :
            /\ IsNoTradeEvent(events[i])
            /\ \A j \in 1..(i - 1) : ~IsNoTradeEvent(events[j])
            /\ ret[2] = ExpectedNoTradeReason(events[i])

\* two no-trade events of different names: the reason is that of the first
C11_Witness ==
    /\ Returned
    /\ RetPlan = "No Trade Day"
    /\ Len(events) = 2
    /\ IsNoTradeEvent(events[1])
    /\ IsNoTradeEvent(events[2])
    /\ F(events[1]).normalized.name # F(events[2]).normalized.name
    /\ ret[2] = ExpectedNoTradeReason(events[1])
    /\ ret[2] # ExpectedNoTradeReason(events[2])

\* the spellings of "USD" in upper and lower case
UsdSpellings == {"USD", "USd", "UsD", "Usd", "uSD", "uSd", "usD", "usd"}

\* the currency of e is "USD" up to case and surrounding whitespace
SpelledUsd(e) ==
    /\ FieldsAreStrings(e)
    /\ strip(StrOf(Get(e, "currency", Str("")))) \in UsdSpellings

\* what the specification says of e with its currency replaced by "USD"
UsdTwinFacts ==
    [e \in RawEvents |->
        IF SpelledUsd(e)
        THEN [spelled |-> TRUE,
              twin |-> Facts([k \in DOMAIN e \cup {"currency"} |->
                                 IF k = "currency" THEN Str("USD") ELSE e[k]])]
        ELSE [spelled |-> FALSE]]

\* the step appends d to exactly one bucket
AppendsOnce(d) ==
    \/ /\ morning_events' = Append(morning_events, d)
       /\ UNCHANGED <<afternoon_events, all_day_events>>
    \/ /\ afternoon_events' = Append(afternoon_events, d)
       /\ UNCHANGED <<morning_events, all_day_events>>
    \/ /\ all_day_events' = Append(all_day_events, d)
       /\ UNCHANGED <<morning_events, afternoon_events>>

\* C12: the iteration over an event whose currency is "USD" up to case and
\* surrounding whitespace does what the rules say of the same event with the
\* currency "USD": it returns "No Trade Day" exactly when that event is a
\* no-trade event, it sets the high-impact flag exactly when that event is a
\* high-impact one, and it stores the event with the currency "USD"; every
\* stored event has the trimmed upper-cased currency.
C12_CurrencyTrimmedUpperCased ==
    [][(/\ pc = "loop"
        /\ idx < Len(events)
        /\ F(events[idx + 1]).strings)
       => LET e == events[idx + 1]
              u == UsdTwinFacts[e]
          IN  /\ AppendsOnce(F(e).normalized)
              /\ F(e).normalized.currency = strip(F(e).normalized.currency)
              /\ F(e).normalized.currency = upper(F(e).normalized.currency)
              /\ u.spelled =>
                   /\ F(e).normalized = u.twin.normalized
                   /\ F(e).normalized.currency = "USD"
                   /\ (pc' = "returned" /\ ret'[1] = "No Trade Day")
                        <=> (/\ u.twin.no_trade_keyword
                             /\ u.twin.t # None
                             /\ Minutes(u.twin.t) >= 13 * 60 + 55)
                   /\ pc' = "loop" =>
                        (has_high_impact_usd_event' <=>
                            \/ has_high_impact_usd_event
                            \/ /\ u.twin.parsed = "High" \/ u.twin.forced
                               /\ u.twin.t # None)]_vars

\* an event of currency "usd " with a no-trade keyword at 15:00 ended the day,
\* and was stored with the currency "USD"
C12_Witness ==
    /\ Returned
    /\ RetPlan = "No Trade Day"
    /\ Len(events) >= 1
    /\ idx = 1
    /\ events[1] = Ev("3:00pm", "usd ", "Medium", "FOMC Press Conference")
    /\ Afternoon = <<F(events[1]).normalized>>
    /\ Afternoon[1].currency = "USD"

\* the characters of k, lower-cased, are those of name, lower-cased, from some
\* position on: k occurs in name as a contiguous substring, whatever the case
\* and whatever stands before and after it
OccursIn(k, name) ==
    \E i \in 0..(Len(name) - Len(k)) :
        \A j \in 1..Len(k) :
            LowerChar(CharAt(k, j)) = LowerChar(CharAt(name, i + j))

\* which keyword lists have a keyword occurring in the name of e
KeywordFacts ==
    [e \in RawEvents |->
        IF ~FieldsAreStrings(e) THEN [strings |-> FALSE]
        ELSE LET name == StrOf(Get(e, "event", Str("")))
             IN  [strings |-> TRUE,
                  no_trade |-> \E i \in DOMAIN NO_TRADE_KEYWORDS :
                                   OccursIn(NO_TRADE_KEYWORDS[i], name),
                  forced |-> \E i \in DOMAIN FORCED_HIGH_IMPACT_KEYWORDS :
                                 OccursIn(FORCED_HIGH_IMPACT_KEYWORDS[i], name)]]

\* the record the step appends to one of the buckets
NewRecord ==
    IF Len(morning_events') > Len(morning_events)
    THEN morning_events'[Len(morning_events')]
    ELSE IF Len(afternoon_events') > Len(afternoon_events)
         THEN afternoon_events'[Len(afternoon_events')]
         ELSE all_day_events'[Len(all_day_events')]

\* C13: a keyword matches an event name exactly when the lower-cased keyword
\* occurs as a contiguous substring of the lower-cased name.  The iteration
\* over an event labels it "High (Forced)" exactly when a forced keyword so
\* occurs in its name and its parsed impact is not "High"; over a USD event
\* at or after 13:55 it returns "No Trade Day" exactly when a no-trade
\* keyword so occurs; over a USD event with a parsed time and a parsed impact
\* other than "High" that does not end the day it sets the flag exactly when
\* a forced keyword so occurs.
C13_KeywordIsCaseInsensitiveSubstring ==
    [][(/\ pc = "loop"
        /\ idx < Len(events)
        /\ KeywordFacts[events[idx + 1]].strings)
       => LET e == events[idx + 1]
              k == KeywordFacts[e]
              late == F(e).t # None /\ Minutes(F(e).t) >= 13 * 60 + 55
              ends == pc' = "returned" /\ ret'[1] = "No Trade Day"
          IN  /\ (NewRecord.impact = "High (Forced)")
                    <=> (k.forced /\ F(e).parsed # "High")
              /\ (F(e).usd /\ late) => (ends <=> k.no_trade)
              /\ (F(e).usd /\ F(e).t # None /\ F(e).parsed # "High" /\ ~ends) =>
                    (has_high_impact_usd_event' <=>
                        (has_high_impact_usd_event \/ k.forced))]_vars

\* "GDP" inside the word "GDPNow" forced the label of the first event, and
\* "FOMC Statement" matched the name "fomc statement" of the second
C13_Witness ==
    /\ Returned
    /\ RetPlan = "No Trade Day"
    /\ events = <<Ev("8:30am", "USD", "Low", "Atlanta Fed GDPNow"),
                  Ev("2:30pm", "USD", "Low", "fomc statement")>>
    /\ Len(Morning) = 1
    /\ Morning[1].impact = "High (Forced)"
    /\ Len(Afternoon) = 1
    /\ KeywordFacts[events[1]].forced
    /\ KeywordFacts[events[2]].no_trade

(***************************************************************************)
(* The parsers applied on their own: parse_impact, parse_time, parse_date. *)
(* The initial state holds the function and its argument, and one step     *)
(* applies the function.                                                   *)
(***************************************************************************)
\* strings passed to parse_impact
ImpactStrings ==
    {"", " ", "High", "high", "HIGH", "HiGh", "Medium", "medium", "MEDIUM",
     "Low", "low", "LOW", "High Impact Expected", "Medium Impact Expected",
     "Low Impact Expected", "Non-Economic", "Holiday", "high low", "low high",
     "Low/High", "medium high", "high medium", "low medium", "medium low",
     "highmedium", "xhighx", "hig", "h i g h", "mediu", "med", "3", "Unknown",
     "HÍGH", "Élevé", "HIGH ", "hi gh", "HIGH ", "hΙgh", "ΜEDIUM", "ΣHIGHΣ"}

ImpactInputs == {None} \cup {Str(s) : s \in ImpactStrings}

\* times of day passed to parse_time in their several spellings
ClockTimes ==
    {<<19, 1>>, <<0, 0>>, <<12, 0>>, <<13, 55>>, <<11, 59>>, <<8, 30>>,
     <<23, 59>>, <<1, 5>>}

\* n in decimal digits, without a leading zero
Decimal(n) == IF n < 10 THEN CharAt(DigitChars, n + 1) ELSE TwoDigits(n)

\* the digit n in the Extended Arabic-Indic digits U+06F0..U+06F9
ExtendedArabicIndic(n) == CharAt(DigitChars, 11 + n)

\* the spellings of the time t in the three formats
Spellings(t) ==
    LET h12 == IF t[1] % 12 = 0 THEN 12 ELSE t[1] % 12
        mer == IF t[1] < 12 THEN "am" ELSE "pm"
        MER == IF t[1] < 12 THEN "AM" ELSE "PM"
        mm == TwoDigits(t[2])
    IN  {Decimal(h12) \o ":" \o mm \o mer,
         TwoDigits(h12) \o ":" \o mm \o MER,
         Decimal(h12) \o ":" \o mm \o " " \o mer,
         TwoDigits(h12) \o ":" \o mm \o " " \o MER,
         Decimal(t[1]) \o ":" \o mm,
         TwoDigits(t[1]) \o ":" \o mm,
         " " \o Decimal(h12) \o ":" \o mm \o mer \o " ",
         " " \o Decimal(h12) \o ":" \o mm \o " " \o mer \o "\f",
         " " \o Decimal(h12) \o ":" \o mm \o " " \o MER \o " ",
         Decimal(h12) \o ":" \o CharAt(mm, 1) \o ExtendedArabicIndic(t[2] % 10) \o mer}

\* strings that are not a time in any of the three formats
NonTimeStrings ==
    {"", " ", "   ", "\t", " ", " \f", "7:01 p m", "Tentative", "tentative", "All Day", "empty",
     "Empty", "EMPTY", "Day 1", "7pm", "7:01 p m", "7.01pm", "19:01:00",
     "25:00", "24:00", "7:60pm", "13:00pm", "0:30am", "19:01 pm", "7:01pmx",
     "noon", ":", "7:", ":01", "7:01 xm", "None", "nan", " ", "۱۳:55",
     "2۳:00", "7:۳۳pm", "۷:01pm", "7:01 pΜ", "7:01ᚁpm"}

TimeInputs ==
    {None} \cup {Str(s) : s \in NonTimeStrings}
           \cup {Str(s) : s \in UNION {Spellings(t) : t \in ClockTimes}}

\* strings passed to parse_date
DateStrings ==
    {"01/07/2025", "1/7/2025", "07/01/2025", "13/07/2025", "07/13/2025",
     "31/12/2025", "12/31/2025", "29/02/2024", "29/02/2025", "31/04/2025",
     "30/04/2025", "29/02/1900", "29/02/2000", "00/07/2025", "01/00/2025",
     "32/01/2025", "01/07/25", "01/07/0000", "01/07/20255", "2025-07-01",
     "01-07-2025", " 01/07/2025 ", "01/07/2025 10:00", "01/07", "01//2025",
     "/07/2025", "001/07/2025", "a/b/c", "Jul 1", "", "  ", "None", "nan",
     " 01/07/2025\f", " 1/07/2025", "1/ 7/2025", " ", "1۳/07/2025",
     "01/07/20۳5", " 01/07/2025", "۱۳/07/2025", "01/۰۷/2025", "۳/07/2025",
     "3۱/07/2025", "29/02/202۵"}

DateInputs ==
    {None, NonStr("int", "1072025"), NonStr("int", "0"), NonStr("float", "nan"),
     NonStr("float", "1.07"), NonStr("list", "[]")}
        \cup {Str(s) : s \in DateStrings}

\* the days from Monday 25 December 2023 to Sunday 24 March 2024, in order
Calendar ==
    <<<<2023, 12, 25>>, <<2023, 12, 26>>, <<2023, 12, 27>>, <<2023, 12, 28>>,
      <<2023, 12, 29>>, <<2023, 12, 30>>, <<2023, 12, 31>>, <<2024, 1, 1>>,
      <<2024, 1, 2>>, <<2024, 1, 3>>, <<2024, 1, 4>>, <<2024, 1, 5>>,
      <<2024, 1, 6>>, <<2024, 1, 7>>, <<2024, 1, 8>>, <<2024, 1, 9>>,
      <<2024, 1, 10>>, <<2024, 1, 11>>, <<2024, 1, 12>>, <<2024, 1, 13>>,
      <<2024, 1, 14>>, <<2024, 1, 15>>, <<2024, 1, 16>>, <<2024, 1, 17>>,
      <<2024, 1, 18>>, <<2024, 1, 19>>, <<2024, 1, 20>>, <<2024, 1, 21>>,
      <<2024, 1, 22>>, <<2024, 1, 23>>, <<2024, 1, 24>>, <<2024, 1, 25>>,
      <<2024, 1, 26>>, <<2024, 1, 27>>, <<2024, 1, 28>>, <<2024, 1, 29>>,
      <<2024, 1, 30>>, <<2024, 1, 31>>, <<2024, 2, 1>>, <<2024, 2, 2>>,
      <<2024, 2, 3>>, <<2024, 2, 4>>, <<2024, 2, 5>>, <<2024, 2, 6>>,
      <<2024, 2, 7>>, <<2024, 2, 8>>, <<2024, 2, 9>>, <<2024, 2, 10>>,
      <<2024, 2, 11>>, <<2024, 2, 12>>, <<2024, 2, 13>>, <<2024, 2, 14>>,
      <<2024, 2, 15>>, <<2024, 2, 16>>, <<2024, 2, 17>>, <<2024, 2, 18>>,
      <<2024, 2, 19>>, <<2024, 2, 20>>, <<2024, 2, 21>>, <<2024, 2, 22>>,
      <<2024, 2, 23>>, <<2024, 2, 24>>, <<2024, 2, 25>>, <<2024, 2, 26>>,
      <<2024, 2, 27>>, <<2024, 2, 28>>, <<2024, 2, 29>>, <<2024, 3, 1>>,
      <<2024, 3, 2>>, <<2024, 3, 3>>, <<2024, 3, 4>>, <<2024, 3, 5>>,
      <<2024, 3, 6>>, <<2024, 3, 7>>, <<2024, 3, 8>>, <<2024, 3, 9>>,
      <<2024, 3, 10>>, <<2024, 3, 11>>, <<2024, 3, 12>>, <<2024, 3, 13>>,
      <<2024, 3, 14>>, <<2024, 3, 15>>, <<2024, 3, 16>>, <<2024, 3, 17>>,
      <<2024, 3, 18>>, <<2024, 3, 19>>, <<2024, 3, 20>>, <<2024, 3, 21>>,
      <<2024, 3, 22>>, <<2024, 3, 23>>, <<2024, 3, 24>>>>

\* values of datetime.now().date() passed to get_current_week_range
TodayInputs == {Calendar[i] : i \in 1..(Len(Calendar) - 7)}

\* time and date strings passed to convert_gmt_to_gmt_minus_5
ConvertTimeStrings ==
    {"1:30pm", "12:30am", "4:59am", "5:00am", "11:59pm", "12:00pm", "01:30PM",
     "13:30", "0:15", "1:30 pm", "7:60pm", "25:00", "All Day", "Tentative",
     "Day 1", "", "empty", "8:30", "1:30 pm", "ALL DAY", "1۳:30", "1:3۰pm",
     "1:30 pm"}

ConvertDates ==
    {None, Str("empty"), Str("invalid"), Str("01/07/2025"), Str("15/08/2025"),
     Str("15/01/2025"), Str("01/12/2025"), Str("31/02/2025"), Str(" 1/07/2025"),
     Str(" 1/07/2025"), Str("1۵/08/2025"), Str(" 01/07/2025"),
     Str("01/01/0001"), Str("02/01/0001"), Str("1/1/0001"), Str("01/01/0000")}

ConvertInputs == {<<t, d>> : t \in ConvertTimeStrings, d \in ConvertDates}

\* analyze_day_events is not running
AnalyzerIdle ==
    /\ events = <<>>
    /\ idx = 0
    /\ plan = ""
    /\ reason = ""
    /\ has_high_impact_usd_event = FALSE
    /\ morning_events = <<>>
    /\ afternoon_events = <<>>
    /\ all_day_events = <<>>
    /\ pc = "idle"
    /\ ret = <<>>
    /\ exc = ""
    /\ target_date = <<>>
    /\ history = <<>>

(***************************************************************************)
(* display_sidebar_risk_management, lines 331-351 of Dailyschedule.py.     *)
(* A number is a pair <<n, d>> standing for n / d: an int has d = 1, the   *)
(* float standard_risk / 2 has d = 2.                                      *)
(***************************************************************************)
WIN_STREAK_THRESHOLD == 5

Int_(n) == <<n, 1>>
Half(n) == <<n, 2>>

\* Python's ==, on numbers
NumEq(a, b) == a[1] * b[2] = b[1] * a[2]

\* int(x): towards zero
int(x) == IF x[1] >= 0 THEN x[1] \div x[2] ELSE -((-x[1]) \div x[2])

\* abs(n) of an int
abs(n) == IF n < 0 THEN -n ELSE n

\* str(n) of an int n >= 0: its decimal digits, without a leading zero
RECURSIVE str_nat(_)
str_nat(n) ==
    IF n < 10 THEN CharAt(DigitChars, n + 1)
    ELSE str_nat(n \div 10) \o CharAt(DigitChars, (n % 10) + 1)

\* str(n) of an int
str_int(n) == IF n < 0 THEN "-" \o str_nat(-n) ELSE str_nat(n)

\* lines 344-351: the suggested risk, the reason, the class of the box and
\* the amount shown, from the values of the session state after the inputs
display_sidebar_risk_management(current_balance, streak, standard_risk, eval_target) ==
    LET profit_loss == current_balance
        r == IF profit_loss <= 0
             THEN <<Half(standard_risk), "Account in drawdown. Minimum Risk.",
                    "risk-minimum">>
             ELSE IF streak < 0
             THEN <<Half(standard_risk),
                    str_int(abs(streak)) \o "-trade losing streak. Minimum Risk.",
                    "risk-minimum">>
             ELSE IF streak >= WIN_STREAK_THRESHOLD
             THEN <<Half(standard_risk),
                    str_int(streak) \o "-win streak. Defensive Risk.",
                    "risk-defensive">>
             ELSE IF profit_loss >= eval_target
             THEN <<Int_(0), "Target reached! Stop trading.", "risk-passed">>
             ELSE <<Int_(standard_risk), "Standard operating conditions.",
                    "risk-normal">>
    IN  [suggested_risk |-> r[1], reason |-> r[2], risk_class |-> r[3],
         shown |-> int(r[1])]

\* values of current_balance, streak, standard_risk and eval_target
Balances == {-50, 0, 50, 2800, 5950, 6000, 6050}
Streaks == {-1234, -100, -12, -1, 0, 4, 5, 6, 100, 1005}
StandardRisks == {0, 300, 305}
EvalTargets == {6000}

RiskInputs == Balances \X Streaks \X StandardRisks \X EvalTargets

InitParsers ==
    /\ AnalyzerIdle
    /\ MainIdle
    /\ ScrapeIdle
    /\ out = [done |-> FALSE]
    /\ \/ fn = "parse_impact" /\ arg \in ImpactInputs
       \/ fn = "parse_time" /\ arg \in TimeInputs
       \/ fn = "parse_date" /\ arg \in DateInputs
       \/ fn = "get_current_week_range" /\ arg \in TodayInputs
       \/ fn = "convert_gmt_to_gmt_minus_5" /\ arg \in ConvertInputs
       \/ fn = "display_sidebar_risk_management" /\ arg \in RiskInputs

\* lines 138-143
Apply_parse_impact ==
    /\ fn = "parse_impact"
    /\ ~out.done
    /\ out' = [done |-> TRUE, value |-> parse_impact(arg)]
    /\ UNCHANGED <<fn, arg, analyzerVars, callVars, mainVars, scrapeVars>>

\* lines 132-137
Apply_parse_time ==
    /\ fn = "parse_time"
    /\ ~out.done
    /\ out' = [done |-> TRUE, value |-> parse_time(arg)]
    /\ UNCHANGED <<fn, arg, analyzerVars, callVars, mainVars, scrapeVars>>

\* lines 122-124
Apply_parse_date ==
    /\ fn = "parse_date"
    /\ ~out.done
    /\ out' = [done |-> TRUE, value |-> parse_date(arg)]
    /\ UNCHANGED <<fn, arg, analyzerVars, callVars, mainVars, scrapeVars>>

\* lines 174-191 of ffscraper.py
Apply_get_current_week_range ==
    /\ fn = "get_current_week_range"
    /\ ~out.done
    /\ out' = [done |-> TRUE, value |-> get_current_week_range(arg)]
    /\ UNCHANGED <<fn, arg, analyzerVars, callVars, mainVars, scrapeVars>>

\* lines 136-172 of ffscraper.py
Apply_convert_gmt_to_gmt_minus_5 ==
    /\ fn = "convert_gmt_to_gmt_minus_5"
    /\ ~out.done
    /\ LET r == convert_gmt_to_gmt_minus_5(arg[1], arg[2])
       IN  out' = IF HasRaised(r)
                  THEN [done |-> TRUE, raised |-> r.raised]
                  ELSE [done |-> TRUE, value |-> r.value]
    /\ UNCHANGED <<fn, arg, analyzerVars, callVars, mainVars, scrapeVars>>

\* lines 344-351 of Dailyschedule.py
Apply_display_sidebar_risk_management ==
    /\ fn = "display_sidebar_risk_management"
    /\ ~out.done
    /\ out' = [done |-> TRUE,
               value |-> display_sidebar_risk_management(arg[1], arg[2],
                                                         arg[3], arg[4])]
    /\ UNCHANGED <<fn, arg, analyzerVars, callVars, mainVars, scrapeVars>>

NextParsers ==
    \/ Apply_parse_impact \/ Apply_parse_time \/ Apply_parse_date
    \/ Apply_get_current_week_range \/ Apply_convert_gmt_to_gmt_minus_5
    \/ Apply_display_sidebar_risk_management

SpecParsers == InitParsers /\ [][NextParsers]_vars

\* the parser f has been applied
Applied(f) == fn = f /\ out.done

\* C14: parse_impact gives "High" if "high" occurs in the input whatever the
\* case, else "Medium" if "medium" occurs, else "Low"; a string with both
\* "high" and "low" gives "High"; the empty string and None give "Low"; the
\* result is one of the three labels.
C14_ParseImpactPrecedence ==
    Applied("parse_impact") =>
        /\ out.value \in {"High", "Medium", "Low"}
        /\ (IsNone(arg) \/ arg = Str("")) => out.value = "Low"
        /\ (~IsNone(arg)) =>
             out.value = IF OccursIn("high", StrOf(arg)) THEN "High"
                         ELSE IF OccursIn("medium", StrOf(arg)) THEN "Medium"
                         ELSE "Low"
        /\ (~IsNone(arg) /\ OccursIn("high", StrOf(arg))
                /\ OccursIn("low", StrOf(arg))) => out.value = "High"

\* parse_impact("low high") was applied and gave "High"
C14_Witness ==
    /\ Applied("parse_impact")
    /\ arg = Str("low high")
    /\ out.value = "High"

\* C15: parse_time accepts the 12-hour format without a space before the
\* meridiem, the 12-hour format with a space and the 24-hour format, and
\* gives the time of the first that parses: "7:01pm", "7:01 pm" and "19:01"
\* all give 19:01, and every spelling of a time in one of the three formats
\* gives that time.
C15_ThreeFormatsSameTime ==
    (Applied("parse_time") /\ ~IsNone(arg)) =>
        /\ StrOf(arg) \in {"7:01pm", "7:01 pm", "19:01"} => out.value = <<19, 1>>
        /\ \A t \in ClockTimes : StrOf(arg) \in Spellings(t) => out.value = t

\* parse_time("7:01 pm") was applied and gave 19:01
C15_Witness ==
    /\ Applied("parse_time")
    /\ arg = Str("7:01 pm")
    /\ out.value = <<19, 1>>

\* C16: parse_time gives None, and a value in every case, for None, the
\* empty string, whitespace, the placeholders "Tentative", "All Day" and
\* "empty", and every other string that is in none of the three formats.
C16_ParseTimeNoneOnNoFormat ==
    /\ (fn = "parse_time" /\ ~out.done) => ENABLED Apply_parse_time
    /\ (Applied("parse_time") /\ (IsNone(arg) \/ StrOf(arg) \in NonTimeStrings))
          => out.value = None

\* parse_time("Tentative") was applied and gave None
C16_Witness ==
    /\ Applied("parse_time")
    /\ arg = Str("Tentative")
    /\ out.value = None

\* the dates that the strings passed to parse_date denote, read day-first
DayFirstDates ==
    {<<"01/07/2025", <<2025, 7, 1>>>>, <<"1/7/2025", <<2025, 7, 1>>>>,
     <<" 01/07/2025 ", <<2025, 7, 1>>>>, <<"07/01/2025", <<2025, 1, 7>>>>,
     <<"13/07/2025", <<2025, 7, 13>>>>, <<"31/12/2025", <<2025, 12, 31>>>>,
     <<"29/02/2024", <<2024, 2, 29>>>>, <<"29/02/2000", <<2000, 2, 29>>>>,
     <<"30/04/2025", <<2025, 4, 30>>>>,
     <<" 01/07/2025\f", <<2025, 7, 1>>>>, <<" 1/07/2025", <<2025, 7, 1>>>>,
     <<"1۳/07/2025", <<2025, 7, 13>>>>, <<"01/07/20۳5", <<2035, 7, 1>>>>,
     <<" 01/07/2025", <<2025, 7, 1>>>>}

\* C17: parse_date reads DD/MM/YYYY day-first ("01/07/2025" is 1 July 2025)
\* and gives None, not an exception, for every input that is not a valid
\* date so written: the empty string, a value that is not a str, a
\* month-first string whose second field exceeds 12, a day the month has not.
C17_ParseDateDayFirstOrNone ==
    /\ (fn = "parse_date" /\ ~out.done) => ENABLED Apply_parse_date
    /\ Applied("parse_date") =>
        /\ arg = Str("01/07/2025") =>
              (out.value = <<2025, 7, 1>> /\ out.value # <<2025, 1, 7>>)
        /\ arg \in {Str(""), Str("07/13/2025"), Str("12/31/2025"), None,
                    NonStr("int", "1072025")} => out.value = None
        /\ IF Len(arg) = 1 /\ \E p \in DayFirstDates : p[1] = StrOf(arg)
           THEN <<StrOf(arg), out.value>> \in DayFirstDates
           ELSE out.value = None

\* parse_date("01/07/2025") was applied and gave 1 July 2025
C17_Witness ==
    /\ Applied("parse_date")
    /\ arg = Str("01/07/2025")
    /\ out.value = <<2025, 7, 1>>

(***************************************************************************)
(* Several calls of analyze_day_events, one after the other.  Each call    *)
(* starts from the locals of lines 285-286; history records the arguments  *)
(* and the outcome of the calls that have ended.                           *)
(***************************************************************************)
MaxCalls == 3

TargetDates == {<<2025, 7, 1>>, <<2025, 7, 2>>}

CallEventLists ==
    {<<>>,
     <<Ev("8:30am", "USD", "High", "CPI m/m")>>,
     <<EvD("8:30am", "USD", "High", "CPI m/m", "01/07/2025")>>,
     <<EvD("8:30am", "USD", "High", "CPI m/m", "02/07/2025")>>,
     <<EvD("9:45am", "EUR", "Low", "Flash Manufacturing PMI", "01/07/2025")>>,
     <<EvD("8:30am", "USD", "High", "CPI m/m", "01/07/2025"),
       EvD("2:00pm", "USD", "High", "FOMC Statement", "02/07/2025")>>,
     <<[time |-> Str("2:00pm"), currency |-> None, impact |-> Str("High"),
        event |-> Str("FOMC Statement")]>>}

\* what the call gave: its return value, or the exception that left it
Outcome == IF pc = "returned" THEN ret ELSE <<exc>>

InitCalls ==
    /\ events \in CallEventLists
    /\ target_date \in TargetDates
    /\ idx = 0
    /\ plan = "Standard Day Plan"
    /\ reason = StandardReason
    /\ has_high_impact_usd_event = FALSE
    /\ morning_events = <<>>
    /\ afternoon_events = <<>>
    /\ all_day_events = <<>>
    /\ pc = "loop"
    /\ ret = <<>>
    /\ exc = ""
    /\ history = <<>>
    /\ ParsersIdle
    /\ MainIdle
    /\ ScrapeIdle

\* Call as it would be were has_high_impact_usd_event a module global that
\* line 286 did not reset
Call_KeepsFlag ==
    /\ pc \in {"returned", "raised"}
    /\ Len(history) + 1 < MaxCalls
    /\ history' = Append(history, [target_date |-> target_date,
                                   events |-> events, outcome |-> Outcome])
    /\ target_date' \in TargetDates
    /\ events' \in CallEventLists
    /\ idx' = 0
    /\ plan' = "Standard Day Plan"
    /\ reason' = StandardReason
    /\ morning_events' = <<>>
    /\ afternoon_events' = <<>>
    /\ all_day_events' = <<>>
    /\ pc' = "loop"
    /\ ret' = <<>>
    /\ exc' = ""
    /\ UNCHANGED <<has_high_impact_usd_event, parserVars, mainVars, scrapeVars>>

\* the next call, after the last has ended: lines 283-286
Call ==
    /\ pc \in {"returned", "raised"}
    /\ Len(history) + 1 < MaxCalls
    /\ history' = Append(history, [target_date |-> target_date,
                                   events |-> events, outcome |-> Outcome])
    /\ target_date' \in TargetDates
    /\ events' \in CallEventLists
    /\ idx' = 0
    /\ plan' = "Standard Day Plan"
    /\ reason' = StandardReason
    /\ has_high_impact_usd_event' = FALSE
    /\ morning_events' = <<>>
    /\ afternoon_events' = <<>>
    /\ all_day_events' = <<>>
    /\ pc' = "loop"
    /\ ret' = <<>>
    /\ exc' = ""
    /\ UNCHANGED <<parserVars, mainVars, scrapeVars>>

NextCalls == RaiseInLoop \/ NoTradeReturn \/ ProcessEvent \/ ReturnPlan \/ Call

SpecCalls == InitCalls /\ [][NextCalls]_vars

\* the calls that have ended, the one in progress included once it has
Ended ==
    IF pc = "loop" THEN history
    ELSE Append(history, [target_date |-> target_date, events |-> events,
                          outcome |-> Outcome])

\* C18: two calls with equal event lists have equal outcomes, whatever calls
\* were made between them and whatever their target dates, and no step of a
\* call changes the event list or its records.  (The module constants are
\* definitions: no statement of the program assigns them.)
C18_NoStateBetweenCalls ==
    /\ [](\A i, j \in DOMAIN Ended :
            Ended[i].events = Ended[j].events =>
                Ended[i].outcome = Ended[j].outcome)
    /\ [][pc = "loop" => (events' = events /\ target_date' = target_date)]_vars

\* an empty list gave the standard plan, a list with high-impact USD news
\* gave the news plan, and the empty list gave the standard plan again
C18_Witness ==
    /\ Len(history) = 2
    /\ pc = "returned"
    /\ history[1].events = <<>>
    /\ history[1].outcome[1] = "Standard Day Plan"
    /\ history[2].events # <<>>
    /\ history[2].outcome[1] = "News Day Plan"
    /\ events = <<>>
    /\ ret = history[1].outcome

\* the record e without its 'date' key
Undated(e) == [k \in DOMAIN e \ {"date"} |-> e[k]]
UndatedList(q) == [i \in DOMAIN q |-> Undated(q[i])]

\* C19: the outcome of a call depends neither on target_date nor on the
\* 'date' key of the records: two calls whose event lists are equal up to
\* the 'date' keys have equal outcomes whatever their target dates, and a
\* call that does not end in "No Trade Day" has classified every record,
\* whether or not its date is target_date.
C19_NoDateFiltering ==
    /\ \A i, j \in DOMAIN Ended :
          UndatedList(Ended[i].events) = UndatedList(Ended[j].events) =>
              Ended[i].outcome = Ended[j].outcome
    /\ (Returned /\ RetPlan # "No Trade Day") =>
          Len(Morning) + Len(Afternoon) + Len(AllDay) = Len(events)

\* a record dated 2 July made the call for 1 July a news day, and the same
\* record dated 1 July gave the call for 2 July the same outcome
C19_Witness ==
    /\ Len(history) >= 1
    /\ history[1].target_date = <<2025, 7, 1>>
    /\ history[1].events = <<EvD("8:30am", "USD", "High", "CPI m/m", "02/07/2025")>>
    /\ history[1].outcome[1] = "News Day Plan"
    /\ Returned
    /\ target_date = <<2025, 7, 2>>
    /\ events = <<EvD("8:30am", "USD", "High", "CPI m/m", "01/07/2025")>>
    /\ Len(Morning) = 1
    /\ ret = history[1].outcome

(***************************************************************************)
(* ffscraper.main, lines 424-474: the driver, the retry loop around        *)
(* scrape_calendar_data, save_to_csv, the two handlers and the finally     *)
(* clause.  Every call main makes is external and returns or raises: an    *)
(* Exception, or the KeyboardInterrupt of the user, which the interpreter  *)
(* raises at a call.  log records in order, with their outcome, the calls  *)
(* of init_driver, scrape_calendar_data, sleep, save_to_csv and            *)
(* driver.quit, and the prints that raise; the calls a print line makes    *)
(* for its argument (str, len) are taken with the print.                   *)
(***************************************************************************)
RETRY_ATTEMPTS == 3
RETRY_DELAY == 5

\* values of args.output
Outputs == {None, Str("calendar.csv")}

\* len(events) of the lists scrape_calendar_data returns
ScrapedLengths == {0, 2, 6}

Logged(entry) == log' = Append(log, entry)

\* what a call raises when it does not return
Raised == {"Exception", "KeyboardInterrupt"}

InitMain ==
    /\ AnalyzerIdle
    /\ ParsersIdle
    /\ ScrapeIdle
    /\ main_pc = "init_driver"
    /\ week_mode \in BOOLEAN
    /\ output \in Outputs
    /\ driver = None
    /\ attempt = 0
    /\ main_events = None
    /\ raised = ""
    /\ log = <<>>
    /\ csv_written = FALSE
    /\ exit_status = -1

\* line 427, init_driver returns a driver; lines 430-431 enter the loop
InitDriverReturns ==
    /\ main_pc = "init_driver"
    /\ Logged([call |-> "init_driver", result |-> "returned"])
    /\ driver' = Str("WebDriver")
    /\ main_events' = None
    /\ attempt' = 0
    /\ main_pc' = "scrape"
    /\ UNCHANGED <<week_mode, output, raised, csv_written, exit_status>>
    /\ UNCHANGED <<analyzerVars, callVars, parserVars, scrapeVars>>

\* line 427, init_driver raises: driver stays None
InitDriverRaises ==
    /\ main_pc = "init_driver"
    /\ \E e \in Raised :
          /\ Logged([call |-> "init_driver", result |-> e])
          /\ raised' = e
    /\ main_pc' = "handler"
    /\ UNCHANGED <<week_mode, output, driver, attempt, main_events, csv_written,
                   exit_status>>
    /\ UNCHANGED <<analyzerVars, callVars, parserVars, scrapeVars>>

\* lines 433-435: the print returns, scrape_calendar_data returns and the
\* loop is left
ScrapeReturns ==
    /\ main_pc = "scrape"
    /\ attempt < RETRY_ATTEMPTS
    /\ \E n \in ScrapedLengths : main_events' = <<n>>
    /\ Logged([call |-> "scrape_calendar_data", week_filter |-> week_mode,
               result |-> "returned"])
    /\ main_pc' = "after_loop"
    /\ UNCHANGED <<week_mode, output, driver, attempt, raised, csv_written,
                   exit_status>>
    /\ UNCHANGED <<analyzerVars, callVars, parserVars, scrapeVars>>

\* lines 433-436: the print returns and scrape_calendar_data raises an
\* Exception, which line 436 catches
ScrapeRaises ==
    /\ main_pc = "scrape"
    /\ attempt < RETRY_ATTEMPTS
    /\ Logged([call |-> "scrape_calendar_data", week_filter |-> week_mode,
               result |-> "Exception"])
    /\ main_pc' = "failed"
    /\ UNCHANGED <<week_mode, output, driver, attempt, main_events, raised,
                   csv_written, exit_status>>
    /\ UNCHANGED <<analyzerVars, callVars, parserVars, scrapeVars>>

\* line 434: KeyboardInterrupt is no Exception, line 436 does not catch it
ScrapeInterrupted ==
    /\ main_pc = "scrape"
    /\ attempt < RETRY_ATTEMPTS
    /\ Logged([call |-> "scrape_calendar_data", week_filter |-> week_mode,
               result |-> "KeyboardInterrupt"])
    /\ raised' = "KeyboardInterrupt"
    /\ main_pc' = "handler"
    /\ UNCHANGED <<week_mode, output, driver, attempt, main_events, csv_written,
                   exit_status>>
    /\ UNCHANGED <<analyzerVars, callVars, parserVars, scrapeVars>>

\* AfterFailure as it would be without the test of line 438: a sleep after
\* every failed attempt
AfterFailure_AlwaysSleeps ==
    /\ main_pc = "failed"
    /\ main_pc' = "sleep"
    /\ UNCHANGED <<week_mode, output, driver, attempt, main_events, raised, log,
                   csv_written, exit_status>>
    /\ UNCHANGED <<analyzerVars, callVars, parserVars, scrapeVars>>

\* lines 437-442, the prints returning: on to the sleep, or the Exception is
\* raised again if this was the last attempt
AfterFailure ==
    /\ main_pc = "failed"
    /\ IF attempt < RETRY_ATTEMPTS - 1
       THEN main_pc' = "sleep" /\ raised' = raised
       ELSE main_pc' = "handler" /\ raised' = "Exception"
    /\ UNCHANGED <<week_mode, output, driver, attempt, main_events, log,
                   csv_written, exit_status>>
    /\ UNCHANGED <<analyzerVars, callVars, parserVars, scrapeVars>>

\* line 440 returns; line 431 takes the next attempt
SleepReturns ==
    /\ main_pc = "sleep"
    /\ Logged([call |-> "sleep", seconds |-> RETRY_DELAY, result |-> "returned"])
    /\ attempt' = attempt + 1
    /\ main_pc' = "scrape"
    /\ UNCHANGED <<week_mode, output, driver, main_events, raised, csv_written,
                   exit_status>>
    /\ UNCHANGED <<analyzerVars, callVars, parserVars, scrapeVars>>

\* line 440 is interrupted
SleepInterrupted ==
    /\ main_pc = "sleep"
    /\ Logged([call |-> "sleep", seconds |-> RETRY_DELAY,
               result |-> "KeyboardInterrupt"])
    /\ raised' = "KeyboardInterrupt"
    /\ main_pc' = "handler"
    /\ UNCHANGED <<week_mode, output, driver, attempt, main_events, csv_written,
                   exit_status>>
    /\ UNCHANGED <<analyzerVars, callVars, parserVars, scrapeVars>>

\* line 444: events is neither None nor empty
EventsScraped == main_events # None /\ main_events[1] > 0

\* lines 444-446: events is not empty and save_to_csv writes the file
SaveReturns ==
    /\ main_pc = "after_loop"
    /\ EventsScraped
    /\ Logged([call |-> "save_to_csv", filename |-> output, result |-> "returned"])
    /\ csv_written' = TRUE
    /\ main_pc' = "report"
    /\ UNCHANGED <<week_mode, output, driver, attempt, main_events, raised,
                   exit_status>>
    /\ UNCHANGED <<analyzerVars, callVars, parserVars, scrapeVars>>

\* line 446: save_to_csv is left by an exception or by the interrupt of the
\* user, before the file is written or, from the print of line 386, after
SaveRaises ==
    /\ main_pc = "after_loop"
    /\ EventsScraped
    /\ \E e \in Raised :
          /\ Logged([call |-> "save_to_csv", filename |-> output, result |-> e])
          /\ raised' = e
    /\ csv_written' \in BOOLEAN
    /\ main_pc' = "handler"
    /\ UNCHANGED <<week_mode, output, driver, attempt, main_events, exit_status>>
    /\ UNCHANGED <<analyzerVars, callVars, parserVars, scrapeVars>>

\* lines 444, 457: no events were scraped
NoEvents ==
    /\ main_pc = "after_loop"
    /\ ~EventsScraped
    /\ main_pc' = "report"
    /\ UNCHANGED <<week_mode, output, driver, attempt, main_events, raised, log,
                   csv_written, exit_status>>
    /\ UNCHANGED <<analyzerVars, callVars, parserVars, scrapeVars>>

\* lines 447-456 or line 458: the prints return and the try body is left
ReportPrinted ==
    /\ main_pc = "report"
    /\ main_pc' = "finally"
    /\ UNCHANGED <<week_mode, output, driver, attempt, main_events, raised, log,
                   csv_written, exit_status>>
    /\ UNCHANGED <<analyzerVars, callVars, parserVars, scrapeVars>>

\* lines 460-466: the print of the handler returns and sys.exit(1) raises
\* SystemExit
Handler ==
    /\ main_pc = "handler"
    /\ raised \in Raised
    /\ raised' = "SystemExit(1)"
    /\ main_pc' = "finally"
    /\ UNCHANGED <<week_mode, output, driver, attempt, main_events, log,
                   csv_written, exit_status>>
    /\ UNCHANGED <<analyzerVars, callVars, parserVars, scrapeVars>>

\* line 477, main() as the last statement of the script: the exit status of
\* the process for the exception e that leaves main, "" if main returns.
\* The interpreter ends on an uncaught KeyboardInterrupt by the signal
\* SIGINT, which the shell reports as 128 + 2, and on any other uncaught
\* Exception with status 1.
ExitStatus(e) ==
    IF e \in {"SystemExit(1)", "Exception"} THEN 1
    ELSE IF e = "KeyboardInterrupt" THEN 130
    ELSE 0

\* Finally as it would be were driver.quit() the last statement of the try
\* body and not in a finally clause: no quit when an exception is in flight
Finally_QuitOnSuccessOnly ==
    /\ main_pc = "finally"
    /\ IF driver # None /\ raised = ""
       THEN \E r \in {"returned"} \cup Raised :
               /\ Logged([call |-> "driver.quit", result |-> r])
               /\ raised' = IF r = "KeyboardInterrupt" THEN r ELSE raised
               /\ main_pc' = IF r = "returned" THEN "closed"
                             ELSE IF r = "Exception" THEN "close_error"
                             ELSE "done"
               /\ exit_status' = IF r = "KeyboardInterrupt" THEN ExitStatus(r)
                                 ELSE exit_status
       ELSE /\ log' = log
            /\ raised' = raised
            /\ main_pc' = "done"
            /\ exit_status' = ExitStatus(raised)
    /\ UNCHANGED <<week_mode, output, driver, attempt, main_events, csv_written>>
    /\ UNCHANGED <<analyzerVars, callVars, parserVars, scrapeVars>>

\* lines 468-471 and 473: without a driver main returns or the exception in
\* flight leaves it; with one, driver.quit() is called.  An Exception of
\* quit is caught by line 473; the interrupt of the user is not: it takes the
\* place of the exception in flight, if any, and leaves main.
Finally ==
    /\ main_pc = "finally"
    /\ IF driver # None
       THEN \E r \in {"returned"} \cup Raised :
               /\ Logged([call |-> "driver.quit", result |-> r])
               /\ raised' = IF r = "KeyboardInterrupt" THEN r ELSE raised
               /\ main_pc' = IF r = "returned" THEN "closed"
                             ELSE IF r = "Exception" THEN "close_error"
                             ELSE "done"
               /\ exit_status' = IF r = "KeyboardInterrupt" THEN ExitStatus(r)
                                 ELSE exit_status
       ELSE /\ log' = log
            /\ raised' = raised
            /\ main_pc' = "done"
            /\ exit_status' = ExitStatus(raised)
    /\ UNCHANGED <<week_mode, output, driver, attempt, main_events, csv_written>>
    /\ UNCHANGED <<analyzerVars, callVars, parserVars, scrapeVars>>

\* line 472 or line 474: the print returns; main returns or the exception in
\* flight leaves it
Closed ==
    /\ main_pc \in {"closed", "close_error"}
    /\ main_pc' = "done"
    /\ exit_status' = ExitStatus(raised)
    /\ UNCHANGED <<week_mode, output, driver, attempt, main_events, raised, log,
                   csv_written>>
    /\ UNCHANGED <<analyzerVars, callVars, parserVars, scrapeVars>>

\* the lines of the prints main makes from where it is
PrintLines ==
    IF main_pc = "scrape" /\ attempt < RETRY_ATTEMPTS THEN {433}
    ELSE IF main_pc = "failed"
    THEN (IF attempt < RETRY_ATTEMPTS - 1 THEN {437, 439} ELSE {437})
    ELSE IF main_pc = "report"
    THEN (IF EventsScraped
          THEN {447, 448, 452, 454}
                 \cup (IF main_events[1] > 5 THEN {456} ELSE {})
          ELSE {458})
    ELSE IF main_pc = "handler"
    THEN (IF raised = "KeyboardInterrupt" THEN {461} ELSE {465})
    ELSE IF main_pc = "closed" THEN {472}
    ELSE IF main_pc = "close_error" THEN {474}
    ELSE {}

\* where an exception e raised at the print of line n is caught: line 436
\* catches an Exception of line 433 and line 473 one of line 472; what is
\* raised elsewhere in the try body goes to the handlers of lines 460-466,
\* what is raised in a handler to the finally clause, and what line 473 does
\* not catch leaves main
PlaceAfter(n, e) ==
    IF n = 433 /\ e = "Exception" THEN "failed"
    ELSE IF n = 472 /\ e = "Exception" THEN "close_error"
    ELSE IF n < 460 THEN "handler"
    ELSE IF n < 468 THEN "finally"
    ELSE "done"

\* a print raises: an Exception (stdout cannot encode or take the text) or
\* the KeyboardInterrupt of the user
PrintRaises ==
    /\ \E n \in PrintLines, e \in Raised :
          /\ Logged([call |-> "print", line |-> n, result |-> e])
          /\ main_pc' = PlaceAfter(n, e)
          /\ raised' = IF main_pc' \in {"failed", "close_error"} THEN raised
                       ELSE e
          /\ exit_status' = IF main_pc' = "done" THEN ExitStatus(e)
                            ELSE exit_status
    /\ UNCHANGED <<week_mode, output, driver, attempt, main_events, csv_written>>
    /\ UNCHANGED <<analyzerVars, callVars, parserVars, scrapeVars>>

NextMain ==
    \/ InitDriverReturns \/ InitDriverRaises
    \/ ScrapeReturns \/ ScrapeRaises \/ ScrapeInterrupted \/ AfterFailure
    \/ SleepReturns \/ SleepInterrupted
    \/ SaveReturns \/ SaveRaises \/ NoEvents \/ ReportPrinted
    \/ Handler \/ Finally \/ Closed \/ PrintRaises

SpecMain == InitMain /\ [][NextMain]_vars

\* ---------------------------------------------------------------------
\* Claims about main, read from the log

\* positions in log of the calls of scrape_calendar_data
Scrapes == {i \in DOMAIN log : log[i].call = "scrape_calendar_data"}

\* positions in log of the prints of line n that raised
PrintsAt(n) == {i \in DOMAIN log : log[i].call = "print" /\ log[i].line = n}

\* positions in log of the attempts of the loop: each calls
\* scrape_calendar_data unless its print of line 433 raises
Attempts == Scrapes \cup PrintsAt(433)

\* the attempts that failed: the Exception line 436 catches
FailedAttempts == {i \in Attempts : log[i].result = "Exception"}

\* positions in log of the calls of sleep and of driver.quit
Sleeps == {i \in DOMAIN log : log[i].call = "sleep"}
Quits == {i \in DOMAIN log : log[i].call = "driver.quit"}

\* the attempts up to position i of the log
AttemptsUpTo(i) == {j \in Attempts : j <= i}

\* lines 431-442 as seen in the log: at most RETRY_ATTEMPTS attempts, none
\* and no sleep after one that returned, a sleep of RETRY_DELAY seconds
\* after a failed attempt that is not the last and nowhere else, and after
\* the sleep the next attempt
RetryLoopShape ==
    /\ Cardinality(Attempts) <= RETRY_ATTEMPTS
    /\ Attempts # {} => log[1] = [call |-> "init_driver", result |-> "returned"]
    /\ \A i \in Attempts :
          /\ log[i].result # "Exception" =>
                \A j \in (i + 1)..Len(log) : j \notin Attempts \cup Sleeps
          /\ (/\ log[i].result = "Exception"
              /\ Cardinality(AttemptsUpTo(i)) < RETRY_ATTEMPTS
              /\ i < Len(log))
                => \/ i + 1 \in Sleeps
                   \/ /\ i + 1 \in PrintsAt(437) \cup PrintsAt(439)
                      /\ \A j \in (i + 1)..Len(log) : j \notin Attempts \cup Sleeps
    /\ \A i \in Sleeps :
          /\ log[i].seconds = RETRY_DELAY
          /\ i - 1 \in FailedAttempts
          /\ Cardinality(AttemptsUpTo(i)) < RETRY_ATTEMPTS
          /\ (log[i].result = "returned" /\ i < Len(log)) => i + 1 \in Attempts
          /\ log[i].result # "returned" =>
                \A j \in (i + 1)..Len(log) : j \notin Attempts \cup Sleeps

\* when RETRY_ATTEMPTS attempts have failed no file is written
NoCsvAfterFailures ==
    Cardinality(FailedAttempts) = RETRY_ATTEMPTS =>
        /\ \A i \in DOMAIN log : log[i].call # "save_to_csv"
        /\ ~csv_written
        /\ main_events = None

\* the entry at position i of the log is an exception that no clause of
\* main catches where it is raised: one raised in a handler (lines 461,
\* 465), a KeyboardInterrupt raised in the try of line 470 (driver.quit,
\* line 472), or one raised by line 474
Uncaught(i) ==
    \/ i \in Quits /\ log[i].result = "KeyboardInterrupt"
    \/ i \in PrintsAt(472) /\ log[i].result = "KeyboardInterrupt"
    \/ i \in PrintsAt(461) \cup PrintsAt(465) \cup PrintsAt(474)

\* a KeyboardInterrupt raised in a handler or in the finally clause is the
\* exception that leaves main
InterruptLeavesMain ==
    \E i \in DOMAIN log :
        /\ Uncaught(i)
        /\ log[i].result = "KeyboardInterrupt"
        /\ \A j \in (i + 1)..Len(log) : ~Uncaught(j)

\* C20 as stated: with a driver, main calls scrape_calendar_data at most
\* RETRY_ATTEMPTS times; after the first call that returns it neither
\* scrapes nor sleeps again; it sleeps RETRY_DELAY seconds after a failed
\* attempt that is not the last and then tries again, and sleeps nowhere
\* else; when RETRY_ATTEMPTS attempts have failed the process ends with exit
\* status 1 and save_to_csv was never called.
C20_ExitsWithStatus1 ==
    /\ RetryLoopShape
    /\ NoCsvAfterFailures
    /\ (Cardinality(FailedAttempts) = RETRY_ATTEMPTS /\ main_pc = "done") =>
          exit_status = 1

\* C20, amended: the retry loop is as stated and no file is written after
\* RETRY_ATTEMPTS failed attempts; the process then ends with exit status 1,
\* unless the exception that leaves main is a KeyboardInterrupt raised in a
\* handler (line 461 or 465) or in the finally clause (driver.quit, line 472
\* or 474): then the process ends by the interrupt (status 130).
C20_RetryLoop ==
    /\ RetryLoopShape
    /\ NoCsvAfterFailures
    /\ (Cardinality(FailedAttempts) = RETRY_ATTEMPTS /\ main_pc = "done") =>
          exit_status = IF InterruptLeavesMain THEN 130 ELSE 1

\* three calls of scrape_calendar_data failed with two sleeps between them,
\* no print raised, quit has returned, and the process has ended with
\* status 1 and no file
C20_Witness ==
    /\ main_pc = "done"
    /\ Cardinality(FailedAttempts \cap Scrapes) = RETRY_ATTEMPTS
    /\ Cardinality(Sleeps) = RETRY_ATTEMPTS - 1
    /\ Len(log) = 2 * RETRY_ATTEMPTS + 1
    /\ log[Len(log)] = [call |-> "driver.quit", result |-> "returned"]
    /\ exit_status = 1
    /\ ~csv_written

\* init_driver has returned a driver
DriverReturned ==
    Len(log) >= 1 /\ log[1] = [call |-> "init_driver", result |-> "returned"]

\* lines 424-474 as seen in the log: driver.quit() is never called twice and
\* never before the finally clause, and when the process ends it has been
\* called exactly once, as the last call of main but for the print of line
\* 472 or 474; without a driver, quit is not called and main has called
\* nothing after init_driver but the print of its handler.
QuitExactlyOnce ==
    /\ main_pc # "done" => ENABLED NextMain
    /\ Cardinality(Quits) <= 1
    /\ main_pc \notin {"closed", "close_error", "done"} => Quits = {}
    /\ main_pc = "done" =>
          IF DriverReturned
          THEN /\ Cardinality(Quits) = 1
               /\ \A i \in Quits : \A j \in (i + 1)..Len(log) :
                     j \in PrintsAt(472) \cup PrintsAt(474)
          ELSE /\ Quits = {}
               /\ log[1].call = "init_driver"
               /\ log[1].result \in Raised
               /\ \A j \in 2..Len(log) : j \in PrintsAt(461) \cup PrintsAt(465)
               /\ Len(log) <= 2

\* init_driver has raised and the process has ended
EndedWithoutDriver == main_pc = "done" /\ ~DriverReturned

\* C21 as stated: main always runs on to the end of the process; when
\* init_driver has returned a driver, driver.quit() has been called exactly
\* once when the process ends, whatever the path (events saved, no events,
\* all attempts failed, KeyboardInterrupt); when init_driver has raised,
\* quit is not called and the exit status is 1.
C21_InitFailureExitsWithStatus1 ==
    /\ QuitExactlyOnce
    /\ EndedWithoutDriver => exit_status = 1

\* C21, amended: quit is called exactly once on every path with a driver
\* and never without one, as stated; when init_driver has raised the exit
\* status is 1, unless the user interrupts the print of the handler (line
\* 461 or 465): then the process ends by the interrupt (status 130).
C21_QuitExactlyOnce ==
    /\ QuitExactlyOnce
    /\ EndedWithoutDriver =>
          exit_status = IF InterruptLeavesMain THEN 130 ELSE 1

\* a KeyboardInterrupt in the second attempt, and another in the print of
\* the handler: the process has ended by the interrupt after one call of
\* quit
C21_Witness ==
    /\ main_pc = "done"
    /\ DriverReturned
    /\ \E i \in Scrapes : log[i].result = "KeyboardInterrupt"
    /\ Cardinality(Scrapes) = 2
    /\ PrintsAt(461) # {}
    /\ Cardinality(Quits) = 1
    /\ log[Len(log)] = [call |-> "driver.quit", result |-> "returned"]
    /\ exit_status = 130

\* the place of the day d in Calendar; the day at place i is a Monday when
\* i % 7 = 1 and a Sunday when i % 7 = 0
PlaceOf(d) == CHOOSE i \in DOMAIN Calendar : Calendar[i] = d

\* C24: get_current_week_range gives a Monday and the Friday four days
\* later; from Monday to Friday the Monday is that of today's week, so the
\* range contains today; on Saturday and Sunday it is the next Monday.
C24_MondayToFridayOfTradingWeek ==
    Applied("get_current_week_range") =>
        LET i == PlaceOf(arg)
            wd == (i - 1) % 7
            m == PlaceOf(out.value[1])
        IN  /\ out.value[1] \in {Calendar[k] : k \in {n \in DOMAIN Calendar : n % 7 = 1}}
            /\ out.value[2] = Calendar[m + 4]
            /\ wd <= 4 => (m = i - wd /\ m <= i /\ i <= m + 4)
            /\ wd >= 5 => (m = i + 7 - wd /\ m > i)

\* on Saturday 2 March 2024 the range is Monday 4 to Friday 8 March
C24_Witness ==
    /\ Applied("get_current_week_range")
    /\ arg = <<2024, 3, 2>>
    /\ out.value = <<<<2024, 3, 4>>, <<2024, 3, 8>>>>

\* dates inside and outside the daylight-saving period of US Eastern time
\* (second Sunday of March to first Sunday of November)
SummerDates == {"01/07/2025", "15/08/2025"}
WinterDates == {"15/01/2025", "01/12/2025"}

\* time strings that are a time of day in GMT
GmtClockStrings ==
    {"1:30pm", "12:30am", "4:59am", "5:00am", "11:59pm", "12:00pm", "01:30PM",
     "13:30", "0:15", "8:30"}

\* C25: convert_gmt_to_gmt_minus_5 accounts for daylight saving time: the
\* same GMT time is converted to a different time on a date inside the
\* daylight-saving period than on a date outside it.
C25_OffsetDependsOnDate ==
    (/\ Applied("convert_gmt_to_gmt_minus_5")
     /\ arg[1] \in GmtClockStrings
     /\ arg[2] # None
     /\ StrOf(arg[2]) \in SummerDates)
        => \A w \in WinterDates :
              out.value # convert_gmt_to_gmt_minus_5(arg[1], Str(w)).value

(***************************************************************************)
(* scrape_calendar_data, lines 277-362 of ffscraper.py: the loop over the  *)
(* rows of the calendar table.  A row is what the driver gives of it:      *)
(* whether its class marks a day breaker, and its cells in document order, *)
(* each the pair of its class attribute and of its clean_cell_text.        *)
(***************************************************************************)
MaxRows == 3

\* lines 32-41, as pairs of a class attribute and a key
ALLOWED_ELEMENT_TYPES ==
    {<<"calendar__cell calendar__date", "date">>,
     <<"calendar__cell calendar__time", "time">>,
     <<"calendar__cell calendar__currency", "currency">>,
     <<"calendar__cell calendar__impact", "impact">>,
     <<"calendar__cell calendar__event", "event">>,
     <<"calendar__cell calendar__actual", "actual">>,
     <<"calendar__cell calendar__forecast", "forecast">>,
     <<"calendar__cell calendar__previous", "previous">>}

\* ALLOWED_ELEMENT_TYPES.get(class_name), "" for None
KeyOf(class_name) ==
    IF \E p \in ALLOWED_ELEMENT_TYPES : p[1] = class_name
    THEN (CHOOSE p \in ALLOWED_ELEMENT_TYPES : p[1] = class_name)[2]
    ELSE ""

\* s.split(): the words of s between runs of whitespace
RECURSIVE split(_)
split(s) ==
    LET t == lstrip(s)
    IN  IF t = "" THEN <<>>
        ELSE LET n == CHOOSE k \in 1..Len(t) :
                        /\ \A j \in 1..k : CharAt(t, j) \notin Whitespace
                        /\ k = Len(t) \/ CharAt(t, k + 1) \in Whitespace
             IN  <<SubSeq(t, 1, n)>> \o split(SubSeq(t, n + 1, Len(t)))

WeekdayNames == {"mon", "tue", "wed", "thu", "fri", "sat", "sun"}
MonthNames ==
    <<"jan", "feb", "mar", "apr", "may", "jun", "jul", "aug", "sep", "oct",
      "nov", "dec">>

FourDigits(n) == TwoDigits(n \div 100) \o TwoDigits(n % 100)

\* lines 321-322: strptime(value + " <year>", "%a %b %d %Y") and
\* strftime("%d/%m/%Y"); None stands for the ValueError.  The name of the
\* weekday is matched and not compared with the date.
parse_calendar_date(value, year) ==
    LET w == split(value)
    IN  IF /\ Len(w) = 3
           /\ value = lstrip(value)
           /\ \E d \in WeekdayNames : MatchesIgnoringCase(w[1], d)
           /\ \E m \in DOMAIN MonthNames : MatchesIgnoringCase(w[2], MonthNames[m])
           /\ Matches_d(w[3])
        THEN LET m == CHOOSE k \in DOMAIN MonthNames :
                          MatchesIgnoringCase(w[2], MonthNames[k])
             IN  IF NumVal(w[3]) <= DaysInMonth(year, m)
                 THEN Str(TwoDigits(NumVal(w[3])) \o "/" \o TwoDigits(m) \o "/"
                              \o FourDigits(year))
                 ELSE None
        ELSE None

\* is_date_in_current_week as it would be were line 197
\* `week_start <= date_obj`
is_date_in_current_week_NoUpperBound(date_str, start, end) ==
    LET date_obj == strptime_d_m_Y(date_str)
    IN  date_obj # None /\ DateLeq(start, date_obj)

\* lines 193-199
is_date_in_current_week(date_str, start, end) ==
    LET date_obj == strptime_d_m_Y(date_str)
    IN  date_obj # None /\ DateLeq(start, date_obj) /\ DateLeq(date_obj, end)

\* lines 293-302: row_data with every value "empty"
EmptyRowData ==
    [date |-> "empty", time |-> "empty", currency |-> "empty",
     impact |-> "empty", event |-> "empty", actual |-> "empty",
     forecast |-> "empty", previous |-> "empty"]

\* ProcessCell as it would be were last_time set back to "empty" by a date
\* cell
ProcessCell_ResetsTimeOnDate(cell, st) ==
    LET key == KeyOf(strip(cell[1]))
        value == cell[2]
    IN  IF key = "" THEN st
        ELSE IF key = "date" /\ value \notin {"", "empty"}
        THEN LET d == parse_calendar_date(value, Head(st.clock)[1])
                 v == IF d = None THEN "invalid" ELSE StrOf(d)
             IN  [st EXCEPT !.current_date = Str(v), !.last_time = "empty",
                            !.row_data.date = v, !.clock = Tail(@)]
        ELSE IF key = "time" /\ value \notin {"", "empty"}
        THEN LET r == convert_gmt_to_gmt_minus_5(value, st.current_date)
             IN  IF HasRaised(r) THEN [st EXCEPT !.raised = r.raised]
                 ELSE [st EXCEPT !.last_time = r.value, !.has_time = TRUE,
                                 !.row_data.time = r.value]
        ELSE [st EXCEPT !.row_data[key] = value]

\* lines 312-334 for one cell: st holds current_date, last_time, has_time
\* and row_data, the dates datetime.now() is yet to give on this row (clock)
\* and the exception that has left convert_gmt_to_gmt_minus_5, "" if none
\* (raised).  Line 321 reads the clock anew at every date cell with a text.
ProcessCell(cell, st) ==
    LET key == KeyOf(strip(cell[1]))
        value == cell[2]
    IN  IF key = "" THEN st
        ELSE IF key = "date" /\ value \notin {"", "empty"}
        THEN LET d == parse_calendar_date(value, Head(st.clock)[1])
                 v == IF d = None THEN "invalid" ELSE StrOf(d)
             IN  [st EXCEPT !.current_date = Str(v), !.row_data.date = v,
                            !.clock = Tail(@)]
        ELSE IF key = "time" /\ value \notin {"", "empty"}
        THEN LET r == convert_gmt_to_gmt_minus_5(value, st.current_date)
             IN  IF HasRaised(r) THEN [st EXCEPT !.raised = r.raised]
                 ELSE [st EXCEPT !.last_time = r.value, !.has_time = TRUE,
                                 !.row_data.time = r.value]
        ELSE [st EXCEPT !.row_data[key] = value]

\* lines 310-334: the loop over the cells of a row, left where a cell raises
RECURSIVE ProcessCells(_, _)
ProcessCells(cells, st) ==
    IF cells = <<>> \/ st.raised # "" THEN st
    ELSE ProcessCells(Tail(cells), ProcessCell(Head(cells), st))

\* lines 337-341: the time carried into a row without one, and the date, from
\* the state st after the cells
FinishRow(st) ==
    [current_date |-> st.current_date,
     last_time |-> st.last_time,
     raised |-> st.raised,
     row_data |-> [st.row_data EXCEPT
                     !.time = IF st.has_time THEN @ ELSE st.last_time,
                     !.date = IF Falsy(st.current_date) THEN "empty"
                              ELSE StrOf(st.current_date)]]

\* lines 293-341 for a row that is not a day breaker: the row_data, the
\* current_date and last_time after the row, and the exception that has left
\* the row, "" if none; clock holds the dates datetime.now() gives at the
\* date cells of the row, in order
ProcessRowData(row, cur, last, clock) ==
    FinishRow(ProcessCells(row.cells,
                           [current_date |-> cur, last_time |-> last,
                            has_time |-> FALSE, row_data |-> EmptyRowData,
                            clock |-> clock, raised |-> ""]))

\* a cell of the class "calendar__cell calendar__<kind>" with the given text
Cell(kind, text) == <<"calendar__cell calendar__" \o kind, text>>

\* a row with a date, time, currency, impact and event cell
Row5(d, t, c, i, e) ==
    [breaker |-> FALSE,
     cells |-> <<Cell("date", d), Cell("time", t), Cell("currency", c),
                 Cell("impact", i), Cell("event", e)>>]

Rows ==
    {Row5("Tue Jul 1", "1:30pm", "USD", "High", "CPI m/m"),
     Row5("", "", "EUR", "Low", "Flash Manufacturing PMI"),
     Row5("Wed Jul 2", "empty", "empty", "empty", "empty"),
     Row5("empty", "empty", "empty", "empty", "empty"),
     Row5("Mon Jul 7", "All Day", "JPY", "Holiday", "Bank Holiday"),
     Row5("Someday", "2:00pm", "USD", "High", "FOMC Statement"),
     Row5("Fri Jul 4", "", "GBP", "Medium", "GDP q/q"),
     Row5("Thu Jan 1", "", "USD", "Low", "Bank Holiday"),
     [breaker |-> TRUE, cells |-> <<Cell("date", "THU jul 1۰")>>],
     [breaker |-> FALSE,
      cells |-> <<Cell("date", "Wed Dec 31"), Cell("graph", "chart"),
                  <<" calendar__cell calendar__event ", "Note">>,
                  Cell("date", "Fri Jan 2")>>]}

Tables == UNION {[1..n -> Rows] : n \in 0..MaxRows}

\* dates datetime.now() gives: a Tuesday, a Saturday, and the last day of a
\* year with the first of the next
ClockDates == {<<2025, 7, 1>>, <<2025, 7, 5>>, <<2025, 12, 31>>, <<2026, 1, 1>>}

\* the dates the clock can give once it has given the date d
Later(d) == {t \in ClockDates : DateLeq(d, t)}

\* the number of date cells with a text of a row: the times line 321 reads
\* the clock on it
DateCells(row) ==
    Cardinality({j \in DOMAIN row.cells :
                    /\ KeyOf(strip(row.cells[j][1])) = "date"
                    /\ row.cells[j][2] \notin {"", "empty"}})

\* the dates a clock that has given d can give at n readings in a row
RECURSIVE Readings(_, _)
Readings(n, d) ==
    IF n = 0 THEN {<<>>}
    ELSE UNION {{<<t>> \o c : c \in Readings(n - 1, t)} : t \in Later(d)}

\* the values current_date and last_time take on these rows, and the
\* work of the loop on one row, tabulated over them
CellTexts == {c[2] : c \in UNION {Range(r.cells) : r \in Rows}}
Years == {d[1] : d \in ClockDates}
CurrentDates ==
    {None, Str("invalid")}
      \cup {parse_calendar_date(t, y) : t \in CellTexts, y \in Years}
LastTimes ==
    {"empty"}
      \cup {convert_gmt_to_gmt_minus_5(t, c).value :
               t \in CellTexts, c \in CurrentDates}
Clocks == UNION {Readings(DateCells(r), <<1, 1, 1>>) : r \in Rows}
ProcessRowTable ==
    [a \in Rows \X CurrentDates \X LastTimes \X Clocks |->
        ProcessRowData(a[1], a[2], a[3], a[4])]

\* lines 283-288: the week of the day datetime.now() gives in
\* get_current_week_range, and the table the driver finds on the page
InitScrape ==
    /\ AnalyzerIdle
    /\ ParsersIdle
    /\ MainIdle
    /\ scr_pc = "loop"
    /\ now \in ClockDates
    /\ reads = <<>>
    /\ has_table \in BOOLEAN
    /\ table \in IF has_table THEN Tables ELSE {<<>>}
    /\ row_i = 0
    /\ week_filter \in BOOLEAN
    /\ week_start = IF week_filter THEN get_current_week_range(now)[1] ELSE <<>>
    /\ week_end = IF week_filter THEN get_current_week_range(now)[2] ELSE <<>>
    /\ data = <<>>
    /\ current_date = None
    /\ last_time = "empty"

\* line 344: some value of row_data other than the date is not "empty"
HasOtherThanDate(row_data) ==
    \E k \in DOMAIN row_data \ {"date"} : row_data[k] # "empty"

\* lines 346-351
PassesWeekFilter(cur) ==
    IF week_filter /\ ~Falsy(cur) /\ StrOf(cur) # "invalid"
    THEN is_date_in_current_week(StrOf(cur), week_start, week_end)
    ELSE ~week_filter

\* lines 307-308: a day breaker is passed over, its cells unread
SkipDayBreaker ==
    /\ scr_pc = "loop"
    /\ has_table
    /\ row_i < Len(table)
    /\ table[row_i + 1].breaker
    /\ row_i' = row_i + 1
    /\ reads' = Append(reads, <<>>)
    /\ UNCHANGED <<scr_pc, now, has_table, table, week_filter, week_start,
                   week_end, data, current_date, last_time>>
    /\ UNCHANGED <<analyzerVars, callVars, parserVars, mainVars>>

\* lines 291-351 for a row that is not a day breaker and on which nothing
\* raises; clock holds what datetime.now() gives at each date cell of the
\* row, no earlier than what it gave before
ProcessRow ==
    /\ scr_pc = "loop"
    /\ has_table
    /\ row_i < Len(table)
    /\ ~table[row_i + 1].breaker
    /\ \E clock \in Readings(DateCells(table[row_i + 1]), now) :
          LET r == ProcessRowTable[<<table[row_i + 1], current_date, last_time,
                                     clock>>]
          IN  /\ r.raised = ""
              /\ current_date' = r.current_date
              /\ last_time' = r.last_time
              /\ data' = IF HasOtherThanDate(r.row_data)
                            /\ PassesWeekFilter(r.current_date)
                         THEN Append(data, r.row_data)
                         ELSE data
              /\ now' = IF clock = <<>> THEN now ELSE clock[Len(clock)]
              /\ reads' = Append(reads, clock)
    /\ row_i' = row_i + 1
    /\ UNCHANGED <<scr_pc, has_table, table, week_filter, week_start, week_end>>
    /\ UNCHANGED <<analyzerVars, callVars, parserVars, mainVars>>

\* lines 358-360: an exception raised in the try body is raised again.  The
\* driver raises at line 288 when the page has no calendar table, and can
\* raise at any call made of it (lines 288, 291, 304, 307, 312, 316); an
\* exception that leaves convert_gmt_to_gmt_minus_5 at line 329 is caught
\* and raised again here as well.
RowRaises ==
    /\ scr_pc = "loop"
    /\ scr_pc' = "raised"
    /\ UNCHANGED <<now, reads, has_table, table, row_i, week_filter, week_start,
                   week_end, data, current_date, last_time>>
    /\ UNCHANGED <<analyzerVars, callVars, parserVars, mainVars>>

\* lines 353-356 and 362: the table was found and its rows are through
ReturnData ==
    /\ scr_pc = "loop"
    /\ has_table
    /\ row_i = Len(table)
    /\ scr_pc' = "returned"
    /\ UNCHANGED <<now, reads, has_table, table, row_i, week_filter, week_start,
                   week_end, data, current_date, last_time>>
    /\ UNCHANGED <<analyzerVars, callVars, parserVars, mainVars>>

NextScrape == SkipDayBreaker \/ ProcessRow \/ RowRaises \/ ReturnData

SpecScrape == InitScrape /\ [][NextScrape]_vars

\* ---------------------------------------------------------------------
\* Claims about scrape_calendar_data

\* the texts of the cells of a row other than its date cell
OwnValues(row) ==
    {row.cells[j][2] :
        j \in {j \in DOMAIN row.cells :
                  KeyOf(strip(row.cells[j][1])) \notin {"", "date"}}}

\* a row none of whose own cells holds a non-empty value
OnlyTheDate(row) == ~row.breaker /\ OwnValues(row) \subseteq {"", "empty"}

\* the row the loop is at
AtRow == scr_pc = "loop" /\ row_i < Len(table)

\* C22: a table row none of whose own cells (time, currency, impact, event,
\* actual, forecast, previous) holds a non-empty value is never appended to
\* the data, wherever it occurs in the table.
C22_RowsWithOnlyTheDateFiltered ==
    [][(AtRow /\ OnlyTheDate(table[row_i + 1]) /\ row_i' = row_i + 1)
          => data' = data]_vars

\* the loop passes over a row that is not a day breaker
RowStep == AtRow /\ ~table[row_i + 1].breaker /\ row_i' = row_i + 1

\* a row some cell of which, other than the date, holds a value
HasOwnValue(row) == ~row.breaker /\ ~(OwnValues(row) \subseteq {"", "empty"})

\* the days from week_start to week_end, as DD/MM/YYYY
WeekDates ==
    IF week_start = <<2025, 6, 30>> /\ week_end = <<2025, 7, 4>>
    THEN {"30/06/2025", "01/07/2025", "02/07/2025", "03/07/2025", "04/07/2025"}
    ELSE IF week_start = <<2025, 7, 7>> /\ week_end = <<2025, 7, 11>>
    THEN {"07/07/2025", "08/07/2025", "09/07/2025", "10/07/2025", "11/07/2025"}
    ELSE IF week_start = <<2025, 12, 29>> /\ week_end = <<2026, 1, 2>>
    THEN {"29/12/2025", "30/12/2025", "31/12/2025", "01/01/2026", "02/01/2026"}
    ELSE {}

\* the carried-forward date is a day of the week
DateInWeek(cur) == cur # None /\ StrOf(cur) \in WeekDates

\* the row was appended, under the given date
AppendedUnder(cur) ==
    /\ Len(data') = Len(data) + 1
    /\ SubSeq(data', 1, Len(data)) = data
    /\ data'[Len(data')].date = IF cur = None THEN "empty" ELSE StrOf(cur)

\* C23: with week_filter enabled the data hold only rows whose carried
\* date is a DD/MM/YYYY day from week_start to week_end inclusive: a row whose
\* date is "invalid", not yet seen or outside the week is not appended, and
\* a row of the week with a value of its own is appended; so is, with
\* week_filter disabled, a row with a value of its own whatever its date.
C23_WeekFilter ==
    /\ [](week_filter => \A i \in DOMAIN data : data[i].date \in WeekDates)
    /\ [][RowStep =>
            /\ (week_filter /\ ~DateInWeek(current_date')) => data' = data
            /\ (week_filter /\ data' # data) => AppendedUnder(current_date')
            /\ (week_filter /\ DateInWeek(current_date')
                    /\ HasOwnValue(table[row_i + 1]))
                  => AppendedUnder(current_date')
            /\ (~week_filter /\ HasOwnValue(table[row_i + 1]))
                  => AppendedUnder(current_date')]_vars

\* with the filter, of a row of the last day of the week, a row of the next
\* week and a row with an unreadable date, only the first is returned
C23_Witness ==
    /\ week_filter
    /\ week_start = <<2025, 6, 30>>
    /\ scr_pc = "returned"
    /\ Len(table) = 3
    /\ {table[i].cells[1][2] : i \in 1..3} = {"Fri Jul 4", "Mon Jul 7", "Someday"}
    /\ Len(data) = 1
    /\ data[1].date = "04/07/2025"

\* the cells of a kind of a row that hold a value
CellsOf(row, kind) ==
    {j \in DOMAIN row.cells :
        /\ strip(row.cells[j][1]) = "calendar__cell calendar__" \o kind
        /\ row.cells[j][2] \notin {"", "empty"}}

\* the greatest element of a non-empty set of numbers
Latest(J) == CHOOSE j \in J : \A k \in J : k <= j

\* the row has a cell of the kind with a value, and the value of the last
\* such cell
HasOwn(row, kind) == ~row.breaker /\ CellsOf(row, kind) # {}
Own(row, kind) == row.cells[Latest(CellsOf(row, kind))][2]

\* the texts of Rows that name a day of the calendar, with the day and the
\* month as DD/MM/, and the years of ClockDates in four digits
NamedDays ==
    {<<"Tue Jul 1", "01/07/">>, <<"Wed Jul 2", "02/07/">>,
     <<"Fri Jul 4", "04/07/">>, <<"Mon Jul 7", "07/07/">>,
     <<"Wed Dec 31", "31/12/">>, <<"Thu Jan 1", "01/01/">>,
     <<"Fri Jan 2", "02/01/">>}
YearWritten(y) == IF y = 2025 THEN "2025" ELSE "2026"

\* what a date cell with the given text leaves in current_date when the
\* clock is in the year y: the day as DD/MM/YYYY, or "invalid"
DateWritten(text, y) ==
    IF \E p \in NamedDays : p[1] = text
    THEN Str((CHOOSE p \in NamedDays : p[1] = text)[2] \o YearWritten(y))
    ELSE Str("invalid")

\* the date of the most recent date cell seen up to row i, in the year the
\* clock gave at that cell, where rd holds the dates the clock gave row by
\* row; None before the first date cell
DateAt(rd, i) ==
    LET J == {j \in 1..i : HasOwn(table[j], "date")}
    IN  IF J = {} THEN None
        ELSE LET j == Latest(J)
             IN  DateWritten(Own(table[j], "date"), rd[j][Len(rd[j])][1])

\* the times of day of Rows, and the same five hours earlier
FiveHoursEarlier == {<<"1:30pm", "8:30am">>, <<"2:00pm", "9:00am">>}

\* the converted time of a time cell with the given text under the date d:
\* a time of day is moved five hours back when d is a day of the calendar,
\* and any other text, or any text without such a date, is kept
ConvertedTime(text, d) ==
    IF /\ d \notin {None, Str("invalid")}
       /\ \E p \in FiveHoursEarlier : p[1] = text
    THEN (CHOOSE p \in FiveHoursEarlier : p[1] = text)[2]
    ELSE text

\* the converted time of the most recent row before row i that had a time
\* of its own, "empty" if there was none
CarriedTime(rd, i) ==
    LET J == {j \in 1..(i - 1) : HasOwn(table[j], "time")}
    IN  IF J = {} THEN "empty"
        ELSE ConvertedTime(Own(table[Latest(J)], "time"), DateAt(rd, Latest(J)))

\* C26: an appended row is given the date of the most recent date cell
\* seen, and a row without a time of its own is given the converted time of
\* the most recent earlier row that had one ("empty" if there was none),
\* whether or not the date has changed since.
C26_TimeAndDateCarriedForward ==
    [][(RowStep /\ data' # data) =>
          LET rec == data'[Len(data')]
              d == DateAt(reads', row_i + 1)
          IN  /\ Len(data') = Len(data) + 1
              /\ rec.date = IF d = None THEN "empty" ELSE StrOf(d)
              /\ ~HasOwn(table[row_i + 1], "time")
                    => rec.time = CarriedTime(reads', row_i + 1)]_vars

\* the first row of a new day, without a time of its own, was returned with
\* the time of the row of the previous day
C26_Witness ==
    /\ scr_pc = "returned"
    /\ Len(table) = 2
    /\ HasOwn(table[1], "time")
    /\ HasOwn(table[2], "date")
    /\ ~HasOwn(table[2], "time")
    /\ Len(data) = 2
    /\ data[1].date = "01/07/2025"
    /\ data[2].date = "04/07/2025"
    /\ data[1].time = "8:30am"
    /\ data[2].time = "8:30am"

\* ---------------------------------------------------------------------
\* Order inside the buckets of analyze_day_events

BucketNames == {"morning", "afternoon", "all_day"}

\* the normalized events of those of the first n input records that the
\* placement g puts in bucket b, in input order
RECURSIVE PlacedIn(_, _, _)
PlacedIn(n, g, b) ==
    IF n = 0 THEN <<>>
    ELSE IF g[n] = b
    THEN Append(PlacedIn(n - 1, g, b), F(events[n]).normalized)
    ELSE PlacedIn(n - 1, g, b)

\* C27: input order is preserved inside each bucket: the processed events
\* have a placement into the three buckets under which every bucket lists
\* its events in the order of the input list.
C27_InputOrderInsideEachBucket ==
    \E g \in [1..idx -> BucketNames] :
        /\ Morning = PlacedIn(idx, g, "morning")
        /\ Afternoon = PlacedIn(idx, g, "afternoon")
        /\ AllDay = PlacedIn(idx, g, "all_day")

\* two different events were returned in the morning bucket, the first of
\* the input first
C27_Witness ==
    /\ Returned
    /\ Len(events) = 2
    /\ Len(ret[3]) = 2
    /\ ret[3][1] # ret[3][2]
    /\ ret[3][1] = F(events[1]).normalized
    /\ ret[3][2] = F(events[2]).normalized

\* ---------------------------------------------------------------------
\* The suggested risk of display_sidebar_risk_management

\* C28: whenever the current profit is at or above eval_target, the
\* suggested risk is 0 with the reason "Target reached! Stop trading.",
\* whatever the streak; in every case the suggested risk is one of 0,
\* standard_risk / 2 or standard_risk.
C28_TargetReachedStopsTrading ==
    Applied("display_sidebar_risk_management") =>
        /\ arg[1] >= arg[4] =>
              /\ NumEq(out.value.suggested_risk, Int_(0))
              /\ out.value.reason = "Target reached! Stop trading."
        /\ \/ NumEq(out.value.suggested_risk, Int_(0))
           \/ NumEq(out.value.suggested_risk, Half(arg[3]))
           \/ NumEq(out.value.suggested_risk, Int_(arg[3]))

====
